---- MODULE Spec2Model ----
(***************************************************************************)
(* Model of the Python SDK of the HNR Blog service (src/sdk/python/blog.py) *)
(* : the client configuration, the request executor Blog._request, the     *)
(* error classifier Blog._raise and the endpoint wrappers built on them.   *)
(*                                                                         *)
(* Texts (Python str and bytes) are sequences of tokens.  A token is either *)
(* one of the characters the code or the wire formats treat specially      *)
(* ("/", "?", "&", "=", " ", the JSON punctuation, the double quote) or an  *)
(* atom, a run of ordinary characters that no operation looks into.         *)
(***************************************************************************)
EXTENDS Integers, Sequences, FiniteSets, TLC

(***************************************************************************)
(* Bounds of the model.                                                    *)
(***************************************************************************)
\* largest integer that occurs as a JSON number or a limit/offset argument
MaxNum == 1
\* largest number of trailing "/" on a base URL handed to the constructor
MaxSlashes == 2

(***************************************************************************)
(* Python values.  Every value is a record of the same shape: t is the     *)
(* type, n the number of an int or bool, raw the tokens of a str or bytes, *)
(* kids the items of a list (k unused) or the items of a dict in insertion *)
(* order (k the tokens of the key).                                        *)
(***************************************************************************)
None == [t |-> "none", n |-> 0, raw |-> <<>>, kids |-> <<>>]
Bool(b) == [t |-> "bool", n |-> IF b THEN 1 ELSE 0, raw |-> <<>>, kids |-> <<>>]
PyInt(i) == [t |-> "int", n |-> i, raw |-> <<>>, kids |-> <<>>]
Str(toks) == [t |-> "str", n |-> 0, raw |-> toks, kids |-> <<>>]
Bytes(toks) == [t |-> "bytes", n |-> 0, raw |-> toks, kids |-> <<>>]
List(items) == [t |-> "list", n |-> 0, raw |-> <<>>,
                kids |-> [i \in 1..Len(items) |-> [k |-> <<>>, v |-> items[i]]]]
Dict(items) == [t |-> "dict", n |-> 0, raw |-> <<>>, kids |-> items]
KV(key, val) == [k |-> key, v |-> val]

\* Python truthiness, as used by `or`, `if x:` and `not x`
Truthy(v) ==
    CASE v.t = "none" -> FALSE
      [] v.t \in {"bool", "int"} -> v.n # 0
      [] v.t \in {"str", "bytes"} -> v.raw # <<>>
      [] OTHER -> v.kids # <<>>

\* a or b
Or(a, b) == IF Truthy(a) THEN a ELSE b

\* k in d
DictHas(d, key) == \E i \in 1..Len(d.kids) : d.kids[i].k = key

\* d.get(key, default)
DictGet(d, key, default) ==
    IF DictHas(d, key)
    THEN d.kids[CHOOSE i \in 1..Len(d.kids) : d.kids[i].k = key].v
    ELSE default

\* d[key] = val: an existing key keeps its place, a new one goes last
DictSet(d, key, val) ==
    IF DictHas(d, key)
    THEN Dict([i \in 1..Len(d.kids) |->
                 IF d.kids[i].k = key THEN KV(key, val) ELSE d.kids[i]])
    ELSE Dict(Append(d.kids, KV(key, val)))

RECURSIVE JoinToks(_, _)
\* sep.join(parts) on token sequences
JoinToks(parts, sep) ==
    IF parts = <<>> THEN <<>>
    ELSE IF Len(parts) = 1 THEN parts[1]
    ELSE parts[1] \o sep \o JoinToks(Tail(parts), sep)

RECURSIVE Repr(_)
\* repr(v)
Repr(v) ==
    CASE v.t = "none" -> <<"None">>
      [] v.t = "bool" -> <<IF v.n = 1 THEN "True" ELSE "False">>
      [] v.t = "int" -> <<ToString(v.n)>>
      [] v.t = "str" -> <<"'">> \o v.raw \o <<"'">>
      [] v.t = "bytes" -> <<"b", "'">> \o v.raw \o <<"'">>
      [] v.t = "list" ->
            <<"[">> \o JoinToks([i \in 1..Len(v.kids) |-> Repr(v.kids[i].v)], <<",", " ">>)
                    \o <<"]">>
      [] OTHER ->
            <<"{">> \o JoinToks([i \in 1..Len(v.kids) |->
                                   <<"'">> \o v.kids[i].k \o <<"'", ":", " ">>
                                           \o Repr(v.kids[i].v)], <<",", " ">>)
                    \o <<"}">>

\* str(v): a str is itself, any other value its repr
PyStr(v) == IF v.t = "str" THEN v ELSE Str(Repr(v))

\* bytes that are not UTF-8
InvalidUtf8 == {"\\xff"}

\* s.encode(): ok is FALSE where v has no such method (AttributeError)
Encode(v) ==
    IF v.t = "str" THEN [ok |-> TRUE, val |-> Bytes(v.raw)]
    ELSE [ok |-> FALSE, val |-> None]

\* b.decode(): ok is FALSE where b is not UTF-8 (UnicodeDecodeError)
Decode(b) ==
    IF \E i \in 1..Len(b.raw) : b.raw[i] \in InvalidUtf8
    THEN [ok |-> FALSE, val |-> None]
    ELSE [ok |-> TRUE, val |-> Str(b.raw)]

(***************************************************************************)
(* JSON.  json.dumps writes a value as tokens, json.loads reads tokens     *)
(* back; white space between tokens is not modelled.                       *)
(***************************************************************************)
RECURSIVE Dumps(_)
Dumps(v) ==
    CASE v.t = "none" -> <<"null">>
      [] v.t = "bool" -> <<IF v.n = 1 THEN "true" ELSE "false">>
      [] v.t = "int" -> <<ToString(v.n)>>
      [] v.t = "str" -> <<"\"">> \o v.raw \o <<"\"">>
      [] v.t = "list" ->
            <<"[">> \o JoinToks([i \in 1..Len(v.kids) |-> Dumps(v.kids[i].v)], <<",">>)
                    \o <<"]">>
      [] OTHER ->
            <<"{">> \o JoinToks([i \in 1..Len(v.kids) |->
                                   <<"\"">> \o v.kids[i].k \o <<"\"", ":">>
                                            \o Dumps(v.kids[i].v)], <<",">>)
                    \o <<"}">>

ParseFail == [ok |-> FALSE, val |-> None, rest |-> <<>>]
ParseOk(v, r) == [ok |-> TRUE, val |-> v, rest |-> r]

IsNumLex(tok) == \E i \in 0..MaxNum : ToString(i) = tok
NumOf(tok) == CHOOSE i \in 0..MaxNum : ToString(i) = tok

RECURSIVE ScanString(_, _)
\* the tokens after an opening quote, up to the closing one
ScanString(toks, acc) ==
    IF toks = <<>> THEN ParseFail
    ELSE IF Head(toks) = "\"" THEN ParseOk(Str(acc), Tail(toks))
    ELSE ScanString(Tail(toks), Append(acc, Head(toks)))

RECURSIVE ParseValue(_), ParseItems(_, _), ParseMembers(_, _)
ParseValue(toks) ==
    IF toks = <<>> THEN ParseFail
    ELSE LET h == Head(toks)
             r == Tail(toks)
         IN CASE h = "null" -> ParseOk(None, r)
              [] h = "true" -> ParseOk(Bool(TRUE), r)
              [] h = "false" -> ParseOk(Bool(FALSE), r)
              [] h = "\"" -> ScanString(r, <<>>)
              [] h = "[" -> IF r # <<>> /\ Head(r) = "]"
                            THEN ParseOk(List(<<>>), Tail(r))
                            ELSE ParseItems(r, <<>>)
              [] h = "{" -> IF r # <<>> /\ Head(r) = "}"
                            THEN ParseOk(Dict(<<>>), Tail(r))
                            ELSE ParseMembers(r, Dict(<<>>))
              [] OTHER -> IF IsNumLex(h) THEN ParseOk(PyInt(NumOf(h)), r)
                          ELSE ParseFail

\* the items of an array, after "[" or ","
ParseItems(toks, acc) ==
    LET p == ParseValue(toks)
    IN IF ~p.ok \/ p.rest = <<>> THEN ParseFail
       ELSE LET items == Append(acc, p.val)
            IN CASE Head(p.rest) = "," -> ParseItems(Tail(p.rest), items)
                 [] Head(p.rest) = "]" -> ParseOk(List(items), Tail(p.rest))
                 [] OTHER -> ParseFail

\* the members of an object, after "{" or ","; a repeated key keeps the
\* last value
ParseMembers(toks, acc) ==
    IF toks = <<>> \/ Head(toks) # "\"" THEN ParseFail
    ELSE LET key == ScanString(Tail(toks), <<>>)
         IN IF ~key.ok \/ key.rest = <<>> \/ Head(key.rest) # ":" THEN ParseFail
            ELSE LET p == ParseValue(Tail(key.rest))
                 IN IF ~p.ok \/ p.rest = <<>> THEN ParseFail
                    ELSE LET d == DictSet(acc, key.val.raw, p.val)
                         IN CASE Head(p.rest) = "," -> ParseMembers(Tail(p.rest), d)
                              [] Head(p.rest) = "}" -> ParseOk(d, Tail(p.rest))
                              [] OTHER -> ParseFail

\* json.loads(raw): ok is FALSE where json.loads raises
Loads(toks) ==
    LET p == ParseValue(toks)
    IN IF p.ok /\ p.rest = <<>> THEN [ok |-> TRUE, val |-> p.val]
       ELSE [ok |-> FALSE, val |-> None]

(***************************************************************************)
(* Exceptions (blog.py lines 50-76, and the standard library's that reach   *)
(* the caller).  An outcome is what a call hands to its caller: a returned *)
(* value or a raised exception.                                            *)
(***************************************************************************)
SpecificKinds ==
    {"NotFoundError", "AuthError", "ValidationError", "RateLimitError", "ServerError"}

\* the base class of an exception class
Parent(cls) ==
    CASE cls \in SpecificKinds -> "BlogError"
      [] cls = "JSONDecodeError" -> "ValueError"
      [] cls = "HTTPError" -> "URLError"
      [] cls = "URLError" -> "OSError"
      [] cls = "TimeoutError" -> "OSError"
      [] cls = "UnicodeDecodeError" -> "ValueError"
      [] cls = "RemoteDisconnected" -> "ConnectionResetError"
      [] cls = "ConnectionResetError" -> "ConnectionError"
      [] cls = "ConnectionError" -> "OSError"
      [] OTHER -> "Exception"

RECURSIVE IsInstance(_, _)
\* isinstance(an exception of class cls, target)
IsInstance(cls, target) ==
    \/ cls = target
    \/ cls # "Exception" /\ IsInstance(Parent(cls), target)

Returned(v) ==
    [kind |-> "return", cls |-> "", msg |-> None, status_code |-> 0,
     body |-> None, value |-> v]

\* Variant of BlogError that leaves status_code at its default 0
\* (C5 depends on the constructor storing the status).
BlogError_NoStatus(cls, message, status_code, body) ==
    [kind |-> "raise", cls |-> cls, msg |-> message, status_code |-> 0,
     body |-> body, value |-> None]

\* BlogError.__init__(message, status_code, body) of class cls, raised
BlogError(cls, message, status_code, body) ==
    [kind |-> "raise", cls |-> cls, msg |-> message, status_code |-> status_code,
     body |-> body, value |-> None]

\* an exception of the standard library, raised
StdError(cls) ==
    [kind |-> "raise", cls |-> cls, msg |-> None, status_code |-> 0,
     body |-> None, value |-> None]

NoOutcome ==
    [kind |-> "none", cls |-> "", msg |-> None, status_code |-> 0,
     body |-> None, value |-> None]

(***************************************************************************)
(* Blog._raise: the error classifier.  exc is the HTTPError: its code and  *)
(* the bytes exc.read() yields.                                            *)
(***************************************************************************)
\* Variant of ErrorBody that keeps a parsed body only if it is an object
\* (C28 depends on every parsed value being kept).
ErrorBody_ObjectsOnly(raw) ==
    LET parsed == Loads(raw)
    IN IF parsed.ok /\ parsed.val.t = "dict" THEN parsed.val ELSE None

\* lines 151-154: the parsed body, None if it does not parse
ErrorBody(raw) ==
    LET parsed == Loads(raw)
    IN IF parsed.ok THEN parsed.val ELSE None

\* Variant of ErrorMessage that prefers the `message` field to the `error`
\* field (C3 depends on the order of the two).
ErrorMessage_MessageFirst(body, status) ==
    LET msg == IF body.t = "dict"
               THEN Or(DictGet(body, <<"message">>, Str(<<>>)),
                       DictGet(body, <<"error">>, Str(<<>>)))
               ELSE Str(<<>>)
    IN IF ~Truthy(msg) THEN Str(<<"HTTP ", ToString(status)>>) ELSE msg

\* lines 156-160
ErrorMessage(body, status) ==
    LET msg == IF body.t = "dict"
               THEN Or(DictGet(body, <<"error">>, Str(<<>>)),
                       DictGet(body, <<"message">>, Str(<<>>)))
               ELSE Str(<<>>)
    IN IF ~Truthy(msg) THEN Str(<<"HTTP ", ToString(status)>>) ELSE msg

\* Variant of ErrorKind whose server range starts above 500 (C1 depends on
\* the boundary of each row of the table).
ErrorKind_Above500(status) ==
    CASE status = 404 -> "NotFoundError"
      [] status \in {401, 403} -> "AuthError"
      [] status = 429 -> "RateLimitError"
      [] status \in {400, 422} -> "ValidationError"
      [] status > 500 -> "ServerError"
      [] OTHER -> "BlogError"

\* Variant of ErrorKind that knows 401 but not 403 (C20 depends on both
\* being AuthError).
ErrorKind_Only401(status) ==
    CASE status = 404 -> "NotFoundError"
      [] status = 401 -> "AuthError"
      [] status = 429 -> "RateLimitError"
      [] status \in {400, 422} -> "ValidationError"
      [] status >= 500 -> "ServerError"
      [] OTHER -> "BlogError"

\* lines 162-172: the class raised for a status
ErrorKind(status) ==
    CASE status = 404 -> "NotFoundError"
      [] status \in {401, 403} -> "AuthError"
      [] status = 429 -> "RateLimitError"
      [] status \in {400, 422} -> "ValidationError"
      [] status >= 500 -> "ServerError"
      [] OTHER -> "BlogError"

\* Variant of _raise without the try/except around json.loads: a body that
\* does not parse escapes as JSONDecodeError (C4 depends on the except).
_raise_Unguarded(exc) ==
    IF ~Loads(exc.raw).ok THEN StdError("JSONDecodeError")
    ELSE BlogError(ErrorKind(exc.code), ErrorMessage(ErrorBody(exc.raw), exc.code),
                   exc.code, ErrorBody(exc.raw))

_raise(exc) ==
    LET status == exc.code
        body == ErrorBody(exc.raw)
    IN BlogError(ErrorKind(status), ErrorMessage(body, status), status, body)

(***************************************************************************)
(* Blog.__init__                                                           *)
(***************************************************************************)
DefaultBaseUrl == Str(<<"http://localhost:3004">>)

\* Variant of RStripSlash that removes one trailing "/" only (C14 depends on
\* all of them being removed).
RStripSlash_Once(toks) ==
    IF toks # <<>> /\ toks[Len(toks)] = "/"
    THEN SubSeq(toks, 1, Len(toks) - 1)
    ELSE toks

RECURSIVE RStripSlash(_)
\* s.rstrip("/") on tokens
RStripSlash(toks) ==
    IF toks # <<>> /\ toks[Len(toks)] = "/"
    THEN RStripSlash(SubSeq(toks, 1, Len(toks) - 1))
    ELSE toks

\* Variant of BlogInit that prefers BLOG_URL to the base_url argument (C15
\* depends on the order).
BlogInit_EnvFirst(e, base_url, manage_key, timeout) ==
    [made |-> TRUE,
     base_url |-> Str(RStripSlash(Or(Or(e.BLOG_URL, base_url), DefaultBaseUrl).raw)),
     manage_key |-> Or(manage_key, e.BLOG_KEY),
     timeout |-> timeout]

\* the client Blog(base_url, manage_key=..., timeout=...) builds in the
\* environment e
BlogInit(e, base_url, manage_key, timeout) ==
    [made |-> TRUE,
     base_url |-> Str(RStripSlash(Or(Or(base_url, e.BLOG_URL), DefaultBaseUrl).raw)),
     manage_key |-> Or(manage_key, e.BLOG_KEY),
     timeout |-> timeout]

NoClient == [made |-> FALSE, base_url |-> None, manage_key |-> None, timeout |-> 0]

(***************************************************************************)
(* Blog._request, first half (lines 120-137): the request it builds.       *)
(***************************************************************************)
\* the arguments of one _request call
RequestArgs(method, path, json_body, headers, query, manage_key) ==
    [method |-> method, path |-> path, json_body |-> json_body,
     headers |-> headers, query |-> query, manage_key |-> manage_key]

\* urllib.parse.quote_plus of one token
QuoteTok(tok) ==
    CASE tok = " " -> "+"
      [] tok = "&" -> "%26"
      [] tok = "=" -> "%3D"
      [] tok = "/" -> "%2F"
      [] tok = "?" -> "%3F"
      [] tok = "+" -> "%2B"
      [] tok = "%" -> "%25"
      [] OTHER -> tok

QuotePlus(toks) == [i \in 1..Len(toks) |-> QuoteTok(toks[i])]

\* urllib.parse.urlencode of a dict of strings
UrlEncode(d) ==
    JoinToks([i \in 1..Len(d.kids) |->
                QuotePlus(d.kids[i].k) \o <<"=">> \o QuotePlus(d.kids[i].v.raw)],
             <<"&">>)

\* Variant of FilterQuery that keeps the entries whose value is truthy
\* (C24 depends on the test being `is not None`).
FilterQuery_DropFalsy(query) ==
    LET kept == SelectSeq(query.kids, LAMBDA kv : Truthy(kv.v))
    IN Dict([i \in 1..Len(kept) |-> KV(kept[i].k, PyStr(kept[i].v))])

\* {k: str(v) for k, v in query.items() if v is not None}
FilterQuery(query) ==
    LET kept == SelectSeq(query.kids, LAMBDA kv : kv.v.t # "none")
    IN Dict([i \in 1..Len(kept) |-> KV(kept[i].k, PyStr(kept[i].v))])

\* Variant of BuildUrl that appends "?" and the encoded entries whenever a
\* query is given, without looking at what the filter left (C8 depends on
\* the second test).
BuildUrl_AlwaysMark(self, path, query) ==
    LET url == self.base_url.raw \o path
    IN IF Truthy(query)
       THEN url \o <<"?">> \o UrlEncode(FilterQuery(query))
       ELSE url

\* lines 120-124
BuildUrl(self, path, query) ==
    LET url == self.base_url.raw \o path
    IN IF Truthy(query)
       THEN LET filtered == FilterQuery(query)
            IN IF Truthy(filtered)
               THEN url \o <<"?">> \o UrlEncode(filtered)
               ELSE url
       ELSE url

\* Variant of ChooseKey that prefers the client's default to the per-call
\* key (C6 depends on the order).
ChooseKey_DefaultFirst(self, manage_key) == Or(self.manage_key, manage_key)

\* line 133: the credential chosen
ChooseKey(self, manage_key) == Or(manage_key, self.manage_key)

\* Variant of BuildHeaders that uses only the per-call key and never the
\* client's default (C7 depends on the default being used).
BuildHeaders_CallKeyOnly(self, a) ==
    LET hdrs0 == IF Truthy(a.headers) THEN a.headers ELSE Dict(<<>>)
        hdrs1 == IF a.json_body.t # "none" /\ ~DictHas(hdrs0, <<"Content-Type">>)
                 THEN DictSet(hdrs0, <<"Content-Type">>, Str(<<"application/json">>))
                 ELSE hdrs0
    IN IF Truthy(a.manage_key)
       THEN DictSet(hdrs1, <<"Authorization">>, Str(<<"Bearer ">> \o a.manage_key.raw))
       ELSE hdrs1

\* Variant of BuildHeaders that adds the Authorization header whenever the
\* credential chosen is not None (C27 depends on the test being `if key`).
BuildHeaders_KeyNotNone(self, a) ==
    LET hdrs0 == IF Truthy(a.headers) THEN a.headers ELSE Dict(<<>>)
        hdrs1 == IF a.json_body.t # "none" /\ ~DictHas(hdrs0, <<"Content-Type">>)
                 THEN DictSet(hdrs0, <<"Content-Type">>, Str(<<"application/json">>))
                 ELSE hdrs0
        key == ChooseKey(self, a.manage_key)
    IN IF key.t # "none"
       THEN DictSet(hdrs1, <<"Authorization">>, Str(<<"Bearer ">> \o key.raw))
       ELSE hdrs1

\* lines 126-135
BuildHeaders(self, a) ==
    LET hdrs0 == IF Truthy(a.headers) THEN a.headers ELSE Dict(<<>>)
        hdrs1 == IF a.json_body.t # "none" /\ ~DictHas(hdrs0, <<"Content-Type">>)
                 THEN DictSet(hdrs0, <<"Content-Type">>, Str(<<"application/json">>))
                 ELSE hdrs0
        key == ChooseKey(self, a.manage_key)
    IN IF Truthy(key)
       THEN DictSet(hdrs1, <<"Authorization">>, Str(<<"Bearer ">> \o key.raw))
       ELSE hdrs1

\* str.capitalize of a header name
Capitalize(name) ==
    CASE name = <<"authorization">> -> <<"Authorization">>
      [] name = <<"Content-Type">> -> <<"Content-type">>
      [] name = <<"content-type">> -> <<"Content-type">>
      [] name = <<"X-Trace">> -> <<"X-trace">>
      [] OTHER -> name

RECURSIVE AddHeaders(_, _)
\* urllib.request.Request: add_header(key, value) for each item, which
\* stores the value under key.capitalize()
AddHeaders(acc, items) ==
    IF items = <<>> THEN acc
    ELSE AddHeaders(DictSet(acc, Capitalize(Head(items).k), Head(items).v), Tail(items))

\* no request object; err names the exception the constructor raised, if any
NoRequest ==
    [url |-> <<>>, data |-> None, headers |-> Dict(<<>>), method |-> "", err |-> ""]

\* urllib.parse's _splittype on the first token of a URL: the scheme, "" if
\* the text does not start with `<scheme>:`
SchemeOf(tok) ==
    CASE tok \in {"http://h:1", "http://env:2", "http://localhost:3004", "http://other:9"} -> "http"
      [] OTHER -> ""

\* Request.full_url's setter: the type of the URL, "" if it has none
UrlType(url) == IF url = <<>> THEN "" ELSE SchemeOf(Head(url))

\* urllib.request.Request(url, data=body, headers=hdrs, method=method): a
\* URL without a scheme raises ValueError("unknown url type")
Request(url, data, hdrs, method) ==
    IF UrlType(url) = ""
    THEN [NoRequest EXCEPT !.err = "ValueError"]
    ELSE [url |-> url, data |-> data, headers |-> AddHeaders(Dict(<<>>), hdrs.kids),
          method |-> method, err |-> ""]

\* lines 120-137
BuildRequest(self, a) ==
    Request(BuildUrl(self, a.path, a.query),
            IF a.json_body.t # "none" THEN Bytes(Dumps(a.json_body)) ELSE None,
            BuildHeaders(self, a),
            a.method)

(***************************************************************************)
(* Blog._request, second half (lines 139-147): what the call makes of the  *)
(* reply.  A reply is what the exchange produced: an HTTP response (the    *)
(* last one, after urllib followed any redirect) or no response at all.    *)
(***************************************************************************)
\* a response: its status, its Content-Type header, its body and its
\* Location header (loc, empty if it has none)
HttpReply(status, ct, body) ==
    [net |-> "http", status |-> status, ct |-> ct, body |-> body, loc |-> <<>>]
NoReply == [net |-> "none", status |-> 0, ct |-> <<>>, body |-> <<>>, loc |-> <<>>]
\* no response: how is refused (nothing listens), dns (the host name does
\* not resolve), timeout (no response within the timeout) or closed (the
\* peer closed the connection without a response)
TransportFailure(how) == [net |-> how, status |-> 0, ct |-> <<>>, body |-> <<>>, loc |-> <<>>]
\* a response that redirects to location
Redirect(status, location) ==
    [net |-> "http", status |-> status, ct |-> <<>>, body |-> <<>>, loc |-> location]

\* the exception urlopen raises when the exchange produced no response:
\* a failure to connect is wrapped in URLError, a failure while waiting for
\* the response is raised as it is
TransportError(how) ==
    CASE how = "timeout" -> "TimeoutError"
      [] how = "closed" -> "RemoteDisconnected"
      [] OTHER -> "URLError"

\* "json" in ct
HasJson(ct) == \E i \in 1..Len(ct) : ct[i] = "json"

\* urllib.request.urlopen: a status outside 200..299 is raised as HTTPError,
\* an exchange without a response as the transport's exception
urlopen(reply) ==
    IF reply.net # "http" THEN TransportError(reply.net)
    ELSE IF reply.status >= 200 /\ reply.status < 300 THEN "response"
    ELSE "HTTPError"

\* Variant of Complete that parses JSON when the path ends in "json" instead
\* of when the content type says so (C9 depends on the test of the content
\* type).
Complete_ByPath(a, reply) ==
    CASE urlopen(reply) = "HTTPError" -> _raise([code |-> reply.status, raw |-> reply.body])
      [] urlopen(reply) # "response" -> StdError(urlopen(reply))
      [] OTHER ->
            IF a.path # <<>> /\ a.path[Len(a.path)] \in {"feed.json", "openapi.json"}
            THEN LET p == Loads(reply.body)
                 IN IF p.ok THEN Returned(p.val) ELSE StdError("JSONDecodeError")
            ELSE Returned(Bytes(reply.body))

\* Variant of Complete that reports an exchange without a response as the
\* generic error of the taxonomy (C11 depends on _request handling HTTPError
\* only).
Complete_TransportAsBlogError(a, reply) ==
    CASE urlopen(reply) = "HTTPError" -> _raise([code |-> reply.status, raw |-> reply.body])
      [] urlopen(reply) # "response" ->
            BlogError("BlogError", Str(<<urlopen(reply)>>), 0, None)
      [] OTHER ->
            IF HasJson(reply.ct)
            THEN LET p == Loads(reply.body)
                 IN IF p.ok THEN Returned(p.val) ELSE StdError("JSONDecodeError")
            ELSE Returned(Bytes(reply.body))

\* lines 139-147, for the call with arguments a
Complete(a, reply) ==
    CASE urlopen(reply) = "HTTPError" -> _raise([code |-> reply.status, raw |-> reply.body])
      [] urlopen(reply) # "response" -> StdError(urlopen(reply))
      [] OTHER ->
            IF HasJson(reply.ct)
            THEN LET p == Loads(reply.body)
                 IN IF p.ok THEN Returned(p.val) ELSE StdError("JSONDecodeError")
            ELSE Returned(Bytes(reply.body))

(***************************************************************************)
(* Redirects.  urlopen runs the default opener, whose HTTPRedirectHandler   *)
(* answers a redirecting response by sending a second request, inside the  *)
(* one urlopen call of line 140.  wire is the sequence of the requests the *)
(* call has sent so far, the last one being the one reply answers.         *)
(***************************************************************************)
\* HTTPRedirectHandler.max_repeats: visits of one URL
MaxRepeats == 4
\* HTTPRedirectHandler.max_redirections: URLs visited
MaxRedirections == 10

RedirectStatuses == {301, 302, 303, 307, 308}

\* urllib.parse.urljoin(url, location): a location that begins with "/"
\* replaces the path of url, an absolute URL replaces url
UrlJoin(url, location) ==
    IF Head(location) = "/" THEN <<Head(url)>> \o location ELSE location

\* HTTPRedirectHandler.http_error_302 and redirect_request: TRUE if urlopen
\* answers reply with another request
Follows(wire, reply) ==
    LET req == wire[Len(wire)]
        newurl == UrlJoin(req.url, reply.loc)
        visits == {i \in 2..Len(wire) : wire[i].url = newurl}
        visited == {wire[i].url : i \in 2..Len(wire)}
    IN /\ reply.net = "http"
       /\ reply.status \in RedirectStatuses
       /\ reply.loc # <<>>
       /\ \/ req.method \in {"GET", "HEAD"}
          \/ reply.status \in {301, 302, 303} /\ req.method = "POST"
       /\ Cardinality(visits) < MaxRepeats
       /\ Cardinality(visited) < MaxRedirections

\* redirect_request: the request sent next, a GET of the new URL with the
\* headers of req other than the content type, and no payload
Redirected(req, reply) ==
    Request(UrlJoin(req.url, reply.loc),
            None,
            Dict(SelectSeq(req.headers.kids, LAMBDA kv : kv.k # <<"Content-type">>)),
            "GET")

(***************************************************************************)
(* Endpoint wrappers.  Each wrapper is the _request call it makes, with    *)
(* the return type it declares (Dict, List, bytes, str, Any).              *)
(***************************************************************************)
WrapperCall(op, returns, a) == [op |-> op, returns |-> returns, args |-> a]
NoCall == WrapperCall("", "", RequestArgs("", <<>>, None, None, None, None))

\* "/api/v1"
ApiV1 == <<"/", "api", "/", "v1">>

health ==
    WrapperCall("health", "Dict",
        RequestArgs("GET", ApiV1 \o <<"/", "health">>, None, None, None, None))

\* Variant of create_blog that also puts the credential in the JSON body
\* (C30 depends on the wrappers handing the credential to _request only as
\* manage_key).
create_blog_KeyInBody(name, description, is_public, manage_key) ==
    LET body0 == Dict(<<KV(<<"name">>, name), KV(<<"is_public">>, is_public)>>)
        body1 == IF description.t # "none"
                 THEN DictSet(body0, <<"description">>, description)
                 ELSE body0
        body == IF manage_key.t # "none"
                THEN DictSet(body1, <<"manage_key">>, manage_key)
                ELSE body1
    IN WrapperCall("create_blog", "Dict",
        RequestArgs("POST", ApiV1 \o <<"/", "blogs">>, body, None, None, manage_key))

create_blog(name, description, is_public, manage_key) ==
    LET body0 == Dict(<<KV(<<"name">>, name), KV(<<"is_public">>, is_public)>>)
        body == IF description.t # "none"
                THEN DictSet(body0, <<"description">>, description)
                ELSE body0
    IN WrapperCall("create_blog", "Dict",
        RequestArgs("POST", ApiV1 \o <<"/", "blogs">>, body, None, None, manage_key))

list_blogs ==
    WrapperCall("list_blogs", "List",
        RequestArgs("GET", ApiV1 \o <<"/", "blogs">>, None, None, None, None))

get_blog(blog_id) ==
    WrapperCall("get_blog", "Dict",
        RequestArgs("GET", ApiV1 \o <<"/", "blogs", "/">> \o blog_id.raw,
                    None, None, None, None))

create_post(blog_id, title, content, slug, tags, status, manage_key) ==
    LET body0 == Dict(<<KV(<<"title">>, title), KV(<<"content">>, content),
                        KV(<<"status">>, status)>>)
        body1 == IF slug.t # "none" THEN DictSet(body0, <<"slug">>, slug) ELSE body0
        body == IF tags.t # "none" THEN DictSet(body1, <<"tags">>, tags) ELSE body1
    IN WrapperCall("create_post", "Dict",
        RequestArgs("POST", ApiV1 \o <<"/", "blogs", "/">> \o blog_id.raw \o <<"/", "posts">>,
                    body, None, None, manage_key))

list_posts(blog_id, tag, limit, offset) ==
    WrapperCall("list_posts", "List",
        RequestArgs("GET", ApiV1 \o <<"/", "blogs", "/">> \o blog_id.raw \o <<"/", "posts">>,
                    None, None,
                    Dict(<<KV(<<"tag">>, tag), KV(<<"limit">>, limit),
                           KV(<<"offset">>, offset)>>),
                    None))

get_post(blog_id, slug) ==
    WrapperCall("get_post", "Dict",
        RequestArgs("GET", ApiV1 \o <<"/", "blogs", "/">> \o blog_id.raw
                                 \o <<"/", "posts", "/">> \o slug.raw,
                    None, None, None, None))

feed_json(blog_id) ==
    WrapperCall("feed_json", "Dict",
        RequestArgs("GET", ApiV1 \o <<"/", "blogs", "/">> \o blog_id.raw \o <<"/", "feed.json">>,
                    None, None, None, None))

search(query, limit, offset) ==
    WrapperCall("search", "Dict",
        RequestArgs("GET", ApiV1 \o <<"/", "search">>, None, None,
                    Dict(<<KV(<<"q">>, query), KV(<<"limit">>, limit),
                           KV(<<"offset">>, offset)>>),
                    None))

export_markdown(blog_id, slug) ==
    WrapperCall("export_markdown", "Any",
        RequestArgs("GET", ApiV1 \o <<"/", "blogs", "/">> \o blog_id.raw
                                 \o <<"/", "posts", "/">> \o slug.raw
                                 \o <<"/", "export", "/", "markdown">>,
                    None, None, None, None))

export_nostr(blog_id, slug) ==
    WrapperCall("export_nostr", "Dict",
        RequestArgs("GET", ApiV1 \o <<"/", "blogs", "/">> \o blog_id.raw
                                 \o <<"/", "posts", "/">> \o slug.raw
                                 \o <<"/", "export", "/", "nostr">>,
                    None, None, None, None))

openapi ==
    WrapperCall("openapi", "Dict",
        RequestArgs("GET", ApiV1 \o <<"/", "openapi.json">>, None, None, None, None))

\* a call of the executor itself
_request(method, path, json_body, headers, query, manage_key) ==
    WrapperCall("_request", "Any",
        RequestArgs(method, path, json_body, headers, query, manage_key))

\* is_healthy makes the call health makes
is_healthy ==
    WrapperCall("is_healthy", "bool",
        RequestArgs("GET", ApiV1 \o <<"/", "health">>, None, None, None, None))

\* "/api/v1/blogs/{blog_id}/posts/{post_id}"
PostPath(blog_id, post_id) ==
    ApiV1 \o <<"/", "blogs", "/">> \o blog_id.raw \o <<"/", "posts", "/">> \o post_id.raw

delete_post(blog_id, post_id, manage_key) ==
    WrapperCall("delete_post", "Dict",
        RequestArgs("DELETE", PostPath(blog_id, post_id), None, None, None, manage_key))

create_comment(blog_id, post_id, author, content, manage_key) ==
    WrapperCall("create_comment", "Dict",
        RequestArgs("POST", PostPath(blog_id, post_id) \o <<"/", "comments">>,
                    Dict(<<KV(<<"author_name">>, author), KV(<<"content">>, content)>>),
                    None, None, manage_key))

list_comments(blog_id, post_id) ==
    WrapperCall("list_comments", "List",
        RequestArgs("GET", PostPath(blog_id, post_id) \o <<"/", "comments">>,
                    None, None, None, None))

delete_comment(blog_id, post_id, comment_id, manage_key) ==
    WrapperCall("delete_comment", "Dict",
        RequestArgs("DELETE",
                    PostPath(blog_id, post_id) \o <<"/", "comments", "/">> \o comment_id.raw,
                    None, None, None, manage_key))

\* Variant of pin_post that sets the pin with PUT (C25 depends on every
\* wrapper naming GET, POST or DELETE).
pin_post_Put(blog_id, post_id, manage_key) ==
    WrapperCall("pin_post", "Dict",
        RequestArgs("PUT", PostPath(blog_id, post_id) \o <<"/", "pin">>,
                    Dict(<<>>), None, None, manage_key))

pin_post(blog_id, post_id, manage_key) ==
    WrapperCall("pin_post", "Dict",
        RequestArgs("POST", PostPath(blog_id, post_id) \o <<"/", "pin">>,
                    Dict(<<>>), None, None, manage_key))

unpin_post(blog_id, post_id, manage_key) ==
    WrapperCall("unpin_post", "Dict",
        RequestArgs("POST", PostPath(blog_id, post_id) \o <<"/", "unpin">>,
                    Dict(<<>>), None, None, manage_key))

feed_rss(blog_id) ==
    WrapperCall("feed_rss", "bytes",
        RequestArgs("GET", ApiV1 \o <<"/", "blogs", "/">> \o blog_id.raw \o <<"/", "feed.rss">>,
                    None, None, None, None))

search_semantic(query, limit, blog_id) ==
    WrapperCall("search_semantic", "Dict",
        RequestArgs("GET", ApiV1 \o <<"/", "search", "/", "semantic">>, None, None,
                    Dict(<<KV(<<"q">>, query), KV(<<"limit">>, limit),
                           KV(<<"blog_id">>, blog_id)>>),
                    None))

related_posts(blog_id, post_id, limit) ==
    WrapperCall("related_posts", "Any",
        RequestArgs("GET", PostPath(blog_id, post_id) \o <<"/", "related">>, None, None,
                    Dict(<<KV(<<"limit">>, limit)>>),
                    None))

blog_stats(blog_id) ==
    WrapperCall("blog_stats", "Dict",
        RequestArgs("GET", ApiV1 \o <<"/", "blogs", "/">> \o blog_id.raw \o <<"/", "stats">>,
                    None, None, None, None))

preview(content) ==
    WrapperCall("preview", "Dict",
        RequestArgs("POST", ApiV1 \o <<"/", "preview">>,
                    Dict(<<KV(<<"content">>, content)>>), None, None, None))

export_html(blog_id, slug) ==
    WrapperCall("export_html", "bytes",
        RequestArgs("GET", PostPath(blog_id, slug) \o <<"/", "export", "/", "html">>,
                    None, None, None, None))

llms_txt ==
    WrapperCall("llms_txt", "str",
        RequestArgs("GET", ApiV1 \o <<"/", "llms.txt">>, None, None, None, None))

skills ==
    WrapperCall("skills", "Dict",
        RequestArgs("GET", <<"/", ".well-known", "/", "skills", "/", "index.json">>,
                    None, None, None, None))

skill_md ==
    WrapperCall("skill_md", "str",
        RequestArgs("GET", <<"/", ".well-known", "/", "skills", "/", "blog", "/", "SKILL.md">>,
                    None, None, None, None))

\* lines 184-187: is_healthy, given what health handed to it
HealthyResult(out) ==
    IF out.kind = "return" /\ out.value.t = "dict"
    THEN Returned(Bool(DictGet(out.value, <<"status">>, None) = Str(<<"ok">>)))
    ELSE Returned(Bool(FALSE))

\* `result if isinstance(result, bytes) else result.encode()`
AsBytes(out) ==
    IF out.kind # "return" \/ out.value.t = "bytes" THEN out
    ELSE IF Encode(out.value).ok THEN Returned(Encode(out.value).val)
    ELSE StdError("AttributeError")

\* `data.decode() if isinstance(data, bytes) else str(data)`
AsText(out) ==
    IF out.kind # "return" THEN out
    ELSE IF out.value.t # "bytes" THEN Returned(PyStr(out.value))
    ELSE IF Decode(out.value).ok THEN Returned(Decode(out.value).val)
    ELSE StdError("UnicodeDecodeError")

\* Variant of WrapperResult in which the wrappers that post-process the
\* result answer a failure with an empty result (C12 depends on these
\* wrappers having no handler around the call).
WrapperResult_EmptyOnFailure(c, out) ==
    CASE c.op = "is_healthy" -> HealthyResult(out)
      [] c.op \in {"feed_rss", "export_html"} ->
            IF out.kind = "raise" THEN Returned(Bytes(<<>>)) ELSE AsBytes(out)
      [] c.op \in {"llms_txt", "skill_md"} ->
            IF out.kind = "raise" THEN Returned(Str(<<>>)) ELSE AsText(out)
      [] OTHER -> out

\* Variant of WrapperResult in which is_healthy only handles the errors of
\* the taxonomy (C13 depends on the handler catching every exception).
WrapperResult_CatchBlogError(c, out) ==
    CASE c.op = "is_healthy" ->
            IF out.kind = "raise" /\ ~IsInstance(out.cls, "BlogError") THEN out
            ELSE HealthyResult(out)
      [] c.op \in {"feed_rss", "export_html"} -> AsBytes(out)
      [] c.op \in {"llms_txt", "skill_md"} -> AsText(out)
      [] OTHER -> out

\* what the wrapper hands to its caller, given what _request handed to it:
\* the wrappers not named here are `return self._request(...)`
WrapperResult(c, out) ==
    CASE c.op = "is_healthy" -> HealthyResult(out)
      [] c.op \in {"feed_rss", "export_html"} -> AsBytes(out)
      [] c.op \in {"llms_txt", "skill_md"} -> AsText(out)
      [] OTHER -> out

(***************************************************************************)
(* State.                                                                  *)
(*   env    the process environment: BLOG_URL and BLOG_KEY (None if unset) *)
(*   ctor   the arguments the constructor was called with                  *)
(*   client the Blog object: base_url, manage_key, timeout                 *)
(*   call   per caller, the call in progress: pc is idle (no call), sent   *)
(*          (the request is built and the exchange is under way) or done   *)
(*          (the call has returned or raised); c the wrapper call, req the *)
(*          request under way, wire the requests urlopen has sent, reply   *)
(*          what the exchange produced, exec the outcome of _request and   *)
(*          out the outcome of the wrapper                                 *)
(*   prev   the per-call manage_key of the call that returned last (None   *)
(*          before any call has returned)                                  *)
(***************************************************************************)
VARIABLES env, ctor, client, call, prev

vars == <<env, ctor, client, call, prev>>

\* the callers that share the client
Threads == {1, 2}
\* one caller on its own
Solo == {1}

\* timeout: int = 30
DefaultTimeout == 30

NoCtor == [base_url |-> None, manage_key |-> None, timeout |-> 0]
Idle == [pc |-> "idle", c |-> NoCall, req |-> NoRequest, wire |-> <<>>,
         reply |-> NoReply, exec |-> NoOutcome, out |-> NoOutcome]

(***************************************************************************)
(* Operations.                                                             *)
(***************************************************************************)
\* the names class Blog defines: looking up any other name on a Blog object
\* raises AttributeError
BlogMethods ==
    {"_request", "_raise", "health", "is_healthy", "create_blog", "list_blogs",
     "get_blog", "create_post", "list_posts", "get_post", "delete_post",
     "create_comment", "list_comments", "delete_comment", "pin_post", "unpin_post",
     "feed_rss", "feed_json", "search", "search_semantic", "related_posts",
     "blog_stats", "preview", "export_markdown", "export_html", "export_nostr",
     "llms_txt", "openapi", "skills", "skill_md"}

\* b.update_blog(blog_id, **fields) and b.update_post(blog_id, post_id,
\* **fields), as the tests call them; class Blog defines neither, so the
\* calls name no method, no path and no return type
update_blog(blog_id, fields) ==
    WrapperCall("update_blog", "", RequestArgs("", <<>>, fields, None, None, None))

update_post(blog_id, post_id, fields) ==
    WrapperCall("update_post", "", RequestArgs("", <<>>, fields, None, None, None))

\* Blog(base_url, manage_key=manage_key, timeout=timeout)
Construct(base_url, manage_key, timeout) ==
    /\ ~client.made
    /\ ctor' = [base_url |-> base_url, manage_key |-> manage_key, timeout |-> timeout]
    /\ client' = BlogInit(env, base_url, manage_key, timeout)
    /\ UNCHANGED <<env, call, prev>>

\* the call c once _request has built the request r (line 137): sent by
\* urlopen (line 140), or over with the exception Request raised, which no
\* handler of _request catches, and with nothing sent
Entered(c, r) ==
    IF r.err = ""
    THEN [pc |-> "sent", c |-> c, req |-> r, wire |-> <<r>>,
          reply |-> NoReply, exec |-> NoOutcome, out |-> NoOutcome]
    ELSE [pc |-> "done", c |-> c, req |-> NoRequest, wire |-> <<>>,
          reply |-> NoReply, exec |-> StdError(r.err),
          out |-> WrapperResult(c, StdError(r.err))]

\* Variant of Invoke that keeps the credential it chose as the client's
\* default (C16 depends on _request assigning no attribute of self).
Invoke_StoresKey(t, c) ==
    /\ client.made
    /\ call[t].pc = "idle"
    /\ call' = [call EXCEPT ![t] = Entered(c, BuildRequest(client, c.args))]
    /\ client' = [client EXCEPT !.manage_key = ChooseKey(client, c.args.manage_key)]
    /\ UNCHANGED <<env, ctor, prev>>

\* Variant of Invoke in which the header overrides are one object shared by
\* the callers: a call without header overrides of its own is sent with
\* those of the call another caller has under way (C18 depends on hdrs
\* being a copy local to the call).
Invoke_SharedHeaders(t, c) ==
    /\ client.made
    /\ call[t].pc = "idle"
    /\ LET other == IF \E u \in Threads \ {t} : call[u].pc = "sent"
                    THEN call[CHOOSE u \in Threads \ {t} : call[u].pc = "sent"].c
                    ELSE NoCall
           a == [c.args EXCEPT !.headers = Or(c.args.headers, other.args.headers)]
       IN call' = [call EXCEPT ![t] = Entered(c, BuildRequest(client, a))]
    /\ UNCHANGED <<env, ctor, client, prev>>

\* Variant of Invoke in which a per-call credential outlives its call: a
\* call without per-call credential is sent with that of the call that
\* returned last (C23 depends on _request keeping nothing between calls).
Invoke_StickyKey(t, c) ==
    /\ client.made
    /\ call[t].pc = "idle"
    /\ LET a == [c.args EXCEPT !.manage_key = Or(c.args.manage_key, prev)]
       IN call' = [call EXCEPT ![t] = Entered(c, BuildRequest(client, a))]
    /\ UNCHANGED <<env, ctor, client, prev>>

\* caller t enters the wrapper call c: _request builds the request and
\* urlopen sends it (lines 120-140), unless Request raises.  A call of a
\* name class Blog does not define ends at the attribute lookup: nothing is
\* built and nothing is sent
Invoke(t, c) ==
    /\ client.made
    /\ call[t].pc = "idle"
    /\ IF c.op \in BlogMethods
       THEN call' = [call EXCEPT ![t] = Entered(c, BuildRequest(client, c.args))]
       ELSE call' = [call EXCEPT ![t] =
                       [pc |-> "done", c |-> c, req |-> NoRequest, wire |-> <<>>,
                        reply |-> NoReply, exec |-> NoOutcome,
                        out |-> StdError("AttributeError")]]
    /\ UNCHANGED <<env, ctor, client, prev>>

\* the exchange of caller t produces reply.  If reply is a redirect that
\* urlopen follows, urlopen sends the next request; if not, _request
\* returns or raises (lines 140-147), and so does the wrapper
Exchange(t, reply) ==
    /\ call[t].pc = "sent"
    /\ IF Follows(call[t].wire, reply)
       THEN LET next == Redirected(call[t].req, reply)
            IN call' = [call EXCEPT ![t] =
                          [@ EXCEPT !.req = next, !.wire = Append(@, next), !.reply = reply]]
       ELSE LET ex == Complete(call[t].c.args, reply)
            IN call' = [call EXCEPT ![t] =
                          [@ EXCEPT !.pc = "done", !.reply = reply, !.exec = ex,
                                    !.out = WrapperResult(call[t].c, ex)]]
    /\ UNCHANGED <<env, ctor, client, prev>>

\* the caller has the outcome; it is free to call again
Return(t) ==
    /\ call[t].pc = "done"
    /\ call' = [call EXCEPT ![t] = Idle]
    /\ prev' = call[t].c.args.manage_key
    /\ UNCHANGED <<env, ctor, client>>

(***************************************************************************)
(* Inputs.                                                                 *)
(***************************************************************************)
Slashes(i) == [j \in 1..i |-> "/"]

EnvUrls == {None, Str(<<>>), Str(<<"http://env:2", "/">>)}
EnvKeys == {None, Str(<<>>), Str(<<"envkey">>)}

BaseUrlArgs ==
    {None, Str(<<>>), Str(<<"/">>)}
    \cup {Str(<<"http://h:1">> \o Slashes(i)) : i \in 0..MaxSlashes}
ManageKeyArgs == {None, Str(<<>>), Str(<<"ctorkey">>)}

CallKeys == {None, Str(<<>>), Str(<<"callkey">>)}

B1 == Str(<<"b1">>)
Slug1 == Str(<<"hello-world">>)

Nums == {PyInt(i) : i \in 0..MaxNum}

\* query mappings handed to the executor
QuerySamples ==
    { None,
      Dict(<<>>),
      Dict(<<KV(<<"tag">>, None)>>),
      Dict(<<KV(<<"tag">>, None), KV(<<"limit">>, None)>>),
      Dict(<<KV(<<"tag">>, Str(<<"rust">>)), KV(<<"limit">>, None)>>),
      Dict(<<KV(<<"q">>, Str(<<>>)), KV(<<"limit">>, PyInt(0)), KV(<<"draft">>, Bool(FALSE))>>),
      Dict(<<KV(<<"q">>, Str(<<"a", "&", "b", "=", "c", " ", "d">>)), KV(<<"blog_id">>, B1)>>),
      Dict(<<KV(<<"a", "&", "b">>, Str(<<"/", "?", "+", "%">>))>>) }

\* header overrides handed to the executor
HeaderSamples ==
    { None,
      Dict(<<KV(<<"X-Trace">>, Str(<<"t1">>))>>),
      Dict(<<KV(<<"Authorization">>, Str(<<"Basic ", "zzz">>))>>),
      Dict(<<KV(<<"authorization">>, Str(<<"Basic ", "zzz">>))>>),
      Dict(<<KV(<<"Content-Type">>, Str(<<"text/plain">>))>>),
      Dict(<<KV(<<"content-type">>, Str(<<"text/plain">>))>>) }

BodySamples == {None, Dict(<<>>), Dict(<<KV(<<"content">>, Str(<<"hi">>))>>)}

HealthPath == ApiV1 \o <<"/", "health">>
RssPath == ApiV1 \o <<"/", "blogs", "/", "b1", "/", "feed.rss">>
JsonFeedPath == ApiV1 \o <<"/", "blogs", "/", "b1", "/", "feed.json">>

\* calls of the executor that vary the query, and the headers, the body and
\* the credential
ExecutorCalls ==
    {_request("GET", HealthPath, None, None, q, None) : q \in QuerySamples}
    \cup {_request("POST", RssPath, b, h, None, k) :
            b \in BodySamples, h \in HeaderSamples, k \in CallKeys}

P1 == Str(<<"p1">>)
Cm1 == Str(<<"c1">>)

\* one call of each wrapper that changes the blog, with the per-call key k
MutatingCalls(k) ==
    {create_blog(Str(<<"My Blog">>), None, Bool(TRUE), k),
     create_post(B1, Str(<<"Hello">>), Str(<<"text">>), None, None, Str(<<"published">>), k),
     delete_post(B1, P1, k),
     create_comment(B1, P1, Str(<<"ann">>), Str(<<"hi">>), k),
     delete_comment(B1, P1, Cm1, k),
     pin_post(B1, P1, k),
     unpin_post(B1, P1, k)}

\* the wrappers that post-process what _request hands them
PostProcessingCalls == {feed_rss(B1), export_html(B1, Slug1), llms_txt, skill_md}

\* calls of the wrappers that read and take no argument that varies
ReadCalls ==
    {is_healthy, list_comments(B1, P1), blog_stats(B1), preview(Str(<<"text">>)), skills}
    \cup PostProcessingCalls

WrapperCalls ==
    {health, list_blogs, openapi, get_blog(B1), get_post(B1, Slug1), feed_json(B1),
     export_markdown(B1, Slug1), export_nostr(B1, Slug1)}
    \cup {create_blog(Str(<<"My Blog">>), d, Bool(TRUE), k) :
            d \in {None, Str(<<"about">>)}, k \in CallKeys}
    \cup {create_post(B1, Str(<<"Hello">>), Str(<<"text">>), sl, tg, Str(<<"published">>), k) :
            sl \in {None, Slug1}, tg \in {None, List(<<Str(<<"rust">>)>>)}, k \in CallKeys}
    \cup {list_posts(B1, tg, l, o) :
            tg \in {None, Str(<<>>), Str(<<"rust">>)}, l \in {None} \cup Nums,
            o \in {None, PyInt(0)}}
    \cup {search(q, l, None) : q \in {Str(<<>>), Str(<<"a", " ", "b">>)}, l \in {None} \cup Nums}
    \cup ReadCalls
    \cup {search_semantic(Str(<<"a", " ", "b">>), l, b) : l \in {None} \cup Nums, b \in {None, B1}}
    \cup {related_posts(B1, P1, l) : l \in {None} \cup Nums}
    \cup UNION {MutatingCalls(k) : k \in CallKeys}

AllCalls == ExecutorCalls \cup WrapperCalls

\* the calls of the reply specification: one of each wrapper, and the
\* executor on a path that ends in .rss and on one that ends in .json
FewCalls ==
    {health, list_blogs, openapi, get_blog(B1), get_post(B1, Slug1), feed_json(B1),
     export_markdown(B1, Slug1), export_nostr(B1, Slug1),
     list_posts(B1, None, None, None),
     search(Str(<<"a", " ", "b">>), None, None),
     search_semantic(Str(<<"a", " ", "b">>), None, None),
     related_posts(B1, P1, None),
     _request("GET", RssPath, None, None, None, None),
     _request("GET", JsonFeedPath, None, None, None, None)}
    \cup ReadCalls
    \cup MutatingCalls(None)
    \cup MutatingCalls(Str(<<"callkey">>))

SuccessStatuses == {200, 201, 204}
\* statuses below 400 that urllib neither returns nor follows
UnfollowedStatuses == {304, 305}
ErrorStatuses == {400, 401, 402, 403, 404, 405, 422, 429, 499, 500, 503}
Statuses == SuccessStatuses \cup UnfollowedStatuses \cup ErrorStatuses

JsonContentTypes ==
    { <<"application", "/", "json">>,
      <<"application", "/", "feed", "+", "json", ";", " ", "charset=utf-8">> }
OtherContentTypes ==
    { <<>>, <<"text", "/", "html", ";", " ", "charset=utf-8">>,
      <<"application", "/", "rss", "+", "xml">> }
ContentTypes == JsonContentTypes \cup OtherContentTypes

\* JSON values a server sends
JsonSamples ==
    { Dict(<<KV(<<"error">>, Str(<<"bad slug">>))>>),
      Dict(<<KV(<<"message">>, Str(<<"no such post">>))>>),
      Dict(<<KV(<<"error">>, Str(<<"bad slug">>)), KV(<<"message">>, Str(<<"no such post">>))>>),
      Dict(<<KV(<<"error">>, Str(<<>>)), KV(<<"message">>, Str(<<"no such post">>))>>),
      Dict(<<KV(<<"error">>, None), KV(<<"message">>, Str(<<"no such post">>))>>),
      Dict(<<KV(<<"error">>, Str(<<>>))>>),
      Dict(<<KV(<<"error">>, Dict(<<KV(<<"code">>, PyInt(1))>>))>>),
      Dict(<<KV(<<"status">>, Str(<<"ok">>))>>),
      Dict(<<KV(<<"status">>, Str(<<"degraded">>))>>),
      Dict(<<>>),
      List(<<Dict(<<KV(<<"id">>, Str(<<"b1">>))>>), PyInt(0)>>),
      Str(<<"oops">>),
      PyInt(1),
      Bool(TRUE),
      None }

\* bodies json.loads rejects: empty, not JSON, cut short, trailing data
UnparseableBodies ==
    { <<>>,
      <<"<html>", " ", "Bad Gateway">>,
      <<"{", "\"", "error", "\"", ":">>,
      <<"{", "}", "{", "}">> }

Bodies == {Dumps(v) : v \in JsonSamples} \cup UnparseableBodies

TransportFailures ==
    {TransportFailure(how) : how \in {"refused", "dns", "timeout", "closed"}}

AllReplies ==
    {HttpReply(s, ct, b) : s \in Statuses, ct \in ContentTypes, b \in Bodies}
    \cup TransportFailures

FewReplies ==
    { HttpReply(200, <<"application", "/", "json">>, Dumps(Dict(<<KV(<<"status">>, Str(<<"ok">>))>>))),
      HttpReply(401, <<"application", "/", "json">>, Dumps(Dict(<<KV(<<"error">>, Str(<<"bad slug">>))>>))),
      TransportFailure("refused") }

(***************************************************************************)
(* Specifications.  SpecRequests runs every client and every call against  *)
(* a few replies; SpecReplies runs a few clients and calls against every   *)
(* reply.                                                                  *)
(***************************************************************************)
Init ==
    /\ env \in [BLOG_URL : EnvUrls, BLOG_KEY : EnvKeys]
    /\ ctor = NoCtor
    /\ client = NoClient
    /\ call = [t \in Threads |-> Idle]
    /\ prev = None

NextRequests ==
    \/ \E b \in BaseUrlArgs, k \in ManageKeyArgs : Construct(b, k, DefaultTimeout)
    \/ \E t \in Solo, c \in AllCalls : Invoke(t, c)
    \/ \E t \in Solo, r \in FewReplies : Exchange(t, r)
    \/ \E t \in Solo : Return(t)

SpecRequests == Init /\ [][NextRequests]_vars

InitReplies ==
    /\ env = [BLOG_URL |-> None, BLOG_KEY |-> None]
    /\ ctor = NoCtor
    /\ client = NoClient
    /\ call = [t \in Threads |-> Idle]
    /\ prev = None

NextReplies ==
    \/ Construct(Str(<<"http://h:1">>), None, DefaultTimeout)
    \/ \E t \in Solo, c \in FewCalls : Invoke(t, c)
    \/ \E t \in Solo, r \in AllReplies : Exchange(t, r)
    \/ \E t \in Solo : Return(t)

SpecReplies == InitReplies /\ [][NextReplies]_vars

\* SpecRedirects runs a few calls of a client that holds a credential
\* against a server that redirects.
RedirectCalls ==
    {health, is_healthy, feed_rss(B1), delete_post(B1, P1, None),
     create_blog(Str(<<"My Blog">>), None, Bool(TRUE), None),
     _request("POST", RssPath, Dict(<<>>), None, None, Str(<<"callkey">>))}

MovedPath == <<"/", "moved">>
OtherHostUrl == <<"http://other:9", "/", "x">>

RedirectReplies ==
    {Redirect(302, MovedPath), Redirect(307, MovedPath), Redirect(302, OtherHostUrl),
     Redirect(302, <<>>)}

NextRedirects ==
    \/ Construct(Str(<<"http://h:1">>), Str(<<"ctorkey">>), DefaultTimeout)
    \/ \E t \in Solo, c \in RedirectCalls : Invoke(t, c)
    \/ \E t \in Solo, r \in FewReplies \cup RedirectReplies : Exchange(t, r)
    \/ \E t \in Solo : Return(t)

SpecRedirects == InitReplies /\ [][NextRedirects]_vars

\* SpecUpdates runs the calls that change a blog, the updates the tests make
\* among them, of a client without and with a credential.
NotFoundReply ==
    HttpReply(404, <<"application", "/", "json">>,
              Dumps(Dict(<<KV(<<"error">>, Str(<<"no such post">>))>>)))

UpdateCalls ==
    {update_blog(B1, Dict(<<KV(<<"name">>, Str(<<"X">>))>>)),
     update_blog(Str(<<"nonexistent-blog-id">>), Dict(<<KV(<<"name">>, Str(<<"X">>))>>)),
     update_post(B1, P1, Dict(<<KV(<<"title">>, Str(<<"X">>))>>)),
     update_post(B1, Str(<<"nonexistent-post-id">>), Dict(<<KV(<<"title">>, Str(<<"X">>))>>))}

NextUpdates ==
    \/ \E k \in {None, Str(<<"ctorkey">>)} :
          Construct(Str(<<"http://h:1">>), k, DefaultTimeout)
    \/ \E t \in Solo, c \in UpdateCalls \cup MutatingCalls(None)
                                     \cup MutatingCalls(Str(<<"callkey">>)) : Invoke(t, c)
    \/ \E t \in Solo, r \in FewReplies \cup {NotFoundReply} : Exchange(t, r)
    \/ \E t \in Solo : Return(t)

SpecUpdates == InitReplies /\ [][NextUpdates]_vars

\* SpecConcurrent runs two callers on one client, each with calls that
\* differ in the per-call credential, the header overrides and the body.
ConcurrentCalls ==
    {health,
     delete_post(B1, P1, Str(<<"callkey">>)),
     create_blog(Str(<<"My Blog">>), None, Bool(TRUE), None),
     _request("POST", RssPath, Dict(<<KV(<<"content">>, Str(<<"hi">>))>>),
              Dict(<<KV(<<"X-Trace">>, Str(<<"t1">>))>>), None, Str(<<"otherkey">>)),
     list_posts(B1, Str(<<"rust">>), PyInt(1), None)}

NextConcurrent ==
    \/ \E k \in {None, Str(<<"ctorkey">>)} :
          Construct(Str(<<"http://h:1", "/">>), k, DefaultTimeout)
    \/ \E t \in Threads, c \in ConcurrentCalls : Invoke(t, c)
    \/ \E t \in Threads, r \in FewReplies : Exchange(t, r)
    \/ \E t \in Threads : Return(t)

SpecConcurrent == InitReplies /\ [][NextConcurrent]_vars

(***************************************************************************)
(* Properties.                                                             *)
(***************************************************************************)
\* caller t's call is over and its exchange produced an HTTP response
HttpDone(t) == call[t].pc = "done" /\ call[t].reply.net = "http"

\* caller t's call has put a request on the wire (Request accepted the URL)
Sent(t) == call[t].wire # <<>>

\* the outcome is an error of the taxonomy
IsTaxonomy(o) == o.kind = "raise" /\ IsInstance(o.cls, "BlogError")

\* the status-to-kind table of the specification
KindOfStatus(status) ==
    IF status = 404 THEN "NotFoundError"
    ELSE IF status = 401 \/ status = 403 THEN "AuthError"
    ELSE IF status = 429 THEN "RateLimitError"
    ELSE IF status = 400 \/ status = 422 THEN "ValidationError"
    ELSE IF status >= 500 THEN "ServerError"
    ELSE "BlogError"

\* the text "HTTP <status>"
HttpStatusText(status) == Str(<<"HTTP ", ToString(status)>>)

\* C1: every status of 400 or more handed to the error classifier raises the
\* kind the table gives: 404 NotFoundError, 401/403 AuthError, 429
\* RateLimitError, 400/422 ValidationError, 500 and above ServerError, any
\* other the generic BlogError itself.
C1_StatusTable ==
    \A t \in Threads :
        (HttpDone(t) /\ call[t].reply.status >= 400) =>
            /\ call[t].exec.kind = "raise"
            /\ call[t].exec.cls = KindOfStatus(call[t].reply.status)

\* a 500 was classified as ServerError and a 402 as the generic BlogError
C1_Witness ==
    \E t \in Threads :
        /\ HttpDone(t)
        /\ \/ call[t].reply.status = 500 /\ call[t].exec.cls = "ServerError"
           \/ call[t].reply.status = 402 /\ call[t].exec.cls = "BlogError"

\* C2: a response with status >= 400 makes the call fail with a taxonomy
\* error and return nothing, and a response with status < 400 never makes it
\* fail with a taxonomy error.
C2_TaxonomyErrorIffStatusAtLeast400 ==
    \A t \in Threads :
        HttpDone(t) =>
            IF call[t].reply.status >= 400
            THEN IsTaxonomy(call[t].exec) /\ call[t].exec.value = None
            ELSE ~IsTaxonomy(call[t].exec)

\* the message the claim C3 gives for an object body: the `error` field if
\* the object has one, else the `message` field if it has one
MessageByPresence(v, status) ==
    IF DictHas(v, <<"error">>) THEN DictGet(v, <<"error">>, None)
    ELSE IF DictHas(v, <<"message">>) THEN DictGet(v, <<"message">>, None)
    ELSE HttpStatusText(status)

\* the same with "has one" read as "has one that is truthy": not null,
\* false, 0 or empty
MessageByTruthyField(v, status) ==
    IF DictHas(v, <<"error">>) /\ Truthy(DictGet(v, <<"error">>, None))
    THEN DictGet(v, <<"error">>, None)
    ELSE IF DictHas(v, <<"message">>) /\ Truthy(DictGet(v, <<"message">>, None))
    THEN DictGet(v, <<"message">>, None)
    ELSE HttpStatusText(status)

\* C3 as stated: when the body of a failing response parses to a JSON object,
\* the message is its `error` field if it has one, otherwise its `message`
\* field if it has one, otherwise "HTTP <status>".
C3_MessageByFieldPresence ==
    \A t \in Threads : \A v \in JsonSamples :
        (HttpDone(t) /\ call[t].reply.status >= 400 /\ v.t = "dict"
            /\ call[t].reply.body = Dumps(v)) =>
                call[t].exec.msg = MessageByPresence(v, call[t].reply.status)

\* C3 as amended: when the body of a failing response parses to a JSON
\* object, the message is its `error` field if it has one that is truthy,
\* otherwise its `message` field if it has one that is truthy, otherwise
\* "HTTP <status>".
C3_MessageByTruthyField ==
    \A t \in Threads : \A v \in JsonSamples :
        (HttpDone(t) /\ call[t].reply.status >= 400 /\ v.t = "dict"
            /\ call[t].reply.body = Dumps(v)) =>
                call[t].exec.msg = MessageByTruthyField(v, call[t].reply.status)

\* the body {"error": "bad slug"} with status 422 gave a ValidationError
\* with message "bad slug"
C3_Witness ==
    \E t \in Threads :
        /\ HttpDone(t)
        /\ call[t].reply.status = 422
        /\ call[t].reply.body = Dumps(Dict(<<KV(<<"error">>, Str(<<"bad slug">>))>>))
        /\ call[t].exec.cls = "ValidationError"
        /\ call[t].exec.msg = Str(<<"bad slug">>)

\* C4: when the body of a failing response does not parse as JSON, the call
\* still raises the taxonomy error of the status table, with body None and
\* message "HTTP <status>".
C4_UnparseableBody ==
    \A t \in Threads :
        (HttpDone(t) /\ call[t].reply.status >= 400
            /\ call[t].reply.body \in UnparseableBodies) =>
                /\ IsTaxonomy(call[t].exec)
                /\ call[t].exec.cls = KindOfStatus(call[t].reply.status)
                /\ call[t].exec.body = None
                /\ call[t].exec.msg = HttpStatusText(call[t].reply.status)

\* a 500 whose body is not JSON gave a ServerError with message "HTTP 500"
C4_Witness ==
    \E t \in Threads :
        /\ HttpDone(t)
        /\ call[t].reply.status = 500
        /\ call[t].reply.body = <<"<html>", " ", "Bad Gateway">>
        /\ call[t].exec.cls = "ServerError"
        /\ call[t].exec.body = None
        /\ call[t].exec.msg = Str(<<"HTTP ", "500">>)

\* C5: every taxonomy error raised carries the status of the response as
\* status_code and the parsed body of the response as body (None when it
\* does not parse); a NotFoundError has status_code 404.
C5_ErrorCarriesStatusAndBody ==
    \A t \in Threads :
        (HttpDone(t) /\ IsTaxonomy(call[t].exec)) =>
            /\ call[t].exec.status_code = call[t].reply.status
            /\ \A v \in JsonSamples :
                   call[t].reply.body = Dumps(v) => call[t].exec.body = v
            /\ call[t].reply.body \in UnparseableBodies => call[t].exec.body = None
            /\ call[t].exec.cls = "NotFoundError" => call[t].exec.status_code = 404

\* get_blog of a missing blog raised NotFoundError with status_code 404 and
\* the body the server sent
C5_Witness ==
    \E t \in Threads :
        /\ HttpDone(t)
        /\ call[t].c.op = "get_blog"
        /\ call[t].reply.status = 404
        /\ call[t].reply.body = Dumps(Dict(<<KV(<<"message">>, Str(<<"no such post">>))>>))
        /\ call[t].out.cls = "NotFoundError"
        /\ call[t].out.status_code = 404
        /\ call[t].out.body = Dict(<<KV(<<"message">>, Str(<<"no such post">>))>>)

\* a credential that is given: a string that is not empty
Present(k) == k.t = "str" /\ k.raw # <<>>

\* the Authorization header of a request, None if it has none
AuthHeader(req) == DictGet(req.headers, <<"Authorization">>, None)

\* the header "Bearer <credential>"
Bearer(k) == Str(<<"Bearer ">> \o k.raw)

\* C6: the credential a request is sent with is the per-call manage_key if
\* one is given, otherwise the constructor's manage_key if one was given,
\* otherwise the BLOG_KEY of the environment.
C6_CredentialPrecedence ==
    \A t \in Threads :
        Sent(t) =>
            LET pk == call[t].c.args.manage_key
                ck == ctor.manage_key
                ek == env.BLOG_KEY
                chosen == IF Present(pk) THEN pk ELSE IF Present(ck) THEN ck ELSE ek
            IN Present(chosen) => AuthHeader(call[t].req) = Bearer(chosen)

\* with no per-call key, the constructor's key was sent although BLOG_KEY
\* is set
C6_Witness ==
    \E t \in Threads :
        /\ call[t].pc = "sent"
        /\ ~Present(call[t].c.args.manage_key)
        /\ ctor.manage_key = Str(<<"ctorkey">>)
        /\ env.BLOG_KEY = Str(<<"envkey">>)
        /\ AuthHeader(call[t].req) = Str(<<"Bearer ", "ctorkey">>)

\* the caller's header overrides name the header (in any case of letters)
CallerGave(headers, name) ==
    /\ headers.t = "dict"
    /\ \E i \in 1..Len(headers.kids) : Capitalize(headers.kids[i].k) = name

\* the value the caller's header overrides give the header
CallerValue(headers, name) ==
    headers.kids[CHOOSE i \in 1..Len(headers.kids) :
                    Capitalize(headers.kids[i].k) = name].v

\* C7 as stated: a request carries "Authorization: Bearer <credential>" with
\* the chosen credential if a call-level or client-level credential is
\* present, and no Authorization header if neither is.
C7_AuthorizationOnlyWithCredential ==
    \A t \in Threads :
        Sent(t) =>
            LET pk == call[t].c.args.manage_key
                chosen == IF Present(pk) THEN pk ELSE client.manage_key
            IN IF Present(chosen)
               THEN AuthHeader(call[t].req) = Bearer(chosen)
               ELSE ~DictHas(call[t].req.headers, <<"Authorization">>)

\* C7 as amended: a request carries "Authorization: Bearer <credential>" with
\* the chosen credential if a call-level or client-level credential is
\* present; if neither is, the executor adds no Authorization header, and
\* the request carries one only if the caller's header overrides hold it.
C7_AuthorizationHeader ==
    \A t \in Threads :
        Sent(t) =>
            LET a == call[t].c.args
                chosen == IF Present(a.manage_key) THEN a.manage_key ELSE client.manage_key
            IN IF Present(chosen)
               THEN AuthHeader(call[t].req) = Bearer(chosen)
               ELSE IF CallerGave(a.headers, <<"Authorization">>)
               THEN AuthHeader(call[t].req) = CallerValue(a.headers, <<"Authorization">>)
               ELSE ~DictHas(call[t].req.headers, <<"Authorization">>)

\* a read sent with the client's default credential and no per-call key
C7_Witness ==
    \E t \in Threads :
        /\ call[t].pc = "sent"
        /\ call[t].req.method = "GET"
        /\ call[t].c.args.manage_key = None
        /\ client.manage_key = Str(<<"ctorkey">>)
        /\ AuthHeader(call[t].req) = Str(<<"Bearer ", "ctorkey">>)

RECURSIVE SplitAcc(_, _, _, _)
SplitAcc(toks, sep, cur, acc) ==
    IF toks = <<>> THEN Append(acc, cur)
    ELSE IF Head(toks) = sep THEN SplitAcc(Tail(toks), sep, <<>>, Append(acc, cur))
    ELSE SplitAcc(Tail(toks), sep, Append(cur, Head(toks)), acc)

\* toks.split(sep)
Split(toks, sep) == SplitAcc(toks, sep, <<>>, <<>>)

\* what a server reads a percent-encoded token as
UnquoteTok(tok) ==
    CASE tok = "+" -> " "
      [] tok = "%26" -> "&"
      [] tok = "%3D" -> "="
      [] tok = "%2F" -> "/"
      [] tok = "%3F" -> "?"
      [] tok = "%2B" -> "+"
      [] tok = "%25" -> "%"
      [] OTHER -> tok

Unquote(toks) == [i \in 1..Len(toks) |-> UnquoteTok(toks[i])]

\* the entries a server reads from a query string
ParseQs(qs) ==
    LET fields == Split(qs, "&")
    IN [i \in 1..Len(fields) |->
          LET parts == Split(fields[i], "=")
          IN KV(Unquote(parts[1]),
                Str(IF Len(parts) >= 2 THEN Unquote(parts[2]) ELSE <<>>))]

\* the entries of a query mapping whose value is not null, as strings
NonNullEntries(query) ==
    IF query.t # "dict" THEN <<>>
    ELSE LET kept == SelectSeq(query.kids, LAMBDA kv : kv.v # None)
         IN [i \in 1..Len(kept) |-> KV(kept[i].k, PyStr(kept[i].v))]

CountToks(toks, tok) == Cardinality({i \in 1..Len(toks) : toks[i] = tok})

\* C8: the query string of the URL holds exactly the entries of the query
\* mapping whose value is not null; if the mapping is absent, empty or all
\* null the URL is the base URL and the path, with no "?".
C8_QueryHoldsNonNullEntries ==
    \A t \in Threads :
        Sent(t) =>
            LET a == call[t].c.args
                url == call[t].req.url
                stem == client.base_url.raw \o a.path
                want == NonNullEntries(a.query)
            IN IF want = <<>>
               THEN url = stem /\ CountToks(url, "?") = 0
               ELSE /\ Len(url) > Len(stem) + 1
                    /\ SubSeq(url, 1, Len(stem)) = stem
                    /\ url[Len(stem) + 1] = "?"
                    /\ CountToks(url, "?") = 1
                    /\ ParseQs(SubSeq(url, Len(stem) + 2, Len(url))) = want

\* list_posts with a tag and a limit but no offset sent both and no offset;
\* list_posts with no filter at all sent no "?"
C8_Witness ==
    \E t \in Threads :
        /\ call[t].pc = "sent"
        /\ call[t].c = list_posts(B1, Str(<<"rust">>), PyInt(1), None)
        /\ call[t].req.url = client.base_url.raw \o call[t].c.args.path
                               \o <<"?", "tag", "=", "rust", "&", "limit", "=", "1">>

\* C9: a successful response with a JSON content type returns the parsed
\* value, equal to the value the server serialized, and one with another
\* content type returns the bytes of the body as they are, whatever the path.
C9_ResultByContentType ==
    \A t \in Threads :
        (HttpDone(t) /\ call[t].reply.status \in SuccessStatuses) =>
            /\ call[t].reply.ct \in JsonContentTypes =>
                  \A v \in JsonSamples :
                      call[t].reply.body = Dumps(v) => call[t].exec = Returned(v)
            /\ call[t].reply.ct \in OtherContentTypes =>
                  call[t].exec = Returned(Bytes(call[t].reply.body))

\* a path that ends in feed.rss answered with a JSON content type returned
\* the parsed list
C9_Witness ==
    \E t \in Threads :
        /\ HttpDone(t)
        /\ call[t].c.args.path = RssPath
        /\ call[t].reply.status = 200
        /\ call[t].reply.ct = <<"application", "/", "json">>
        /\ call[t].exec.kind = "return"
        /\ call[t].exec.value = List(<<Dict(<<KV(<<"id">>, Str(<<"b1">>))>>), PyInt(0)>>)

\* C10: a wrapper declared to return JSON (a Dict or a List) never hands raw
\* bytes to its caller as the result of a successful call.
C10_JsonWrapperNeverReturnsBytes ==
    \A t \in Threads :
        (call[t].pc = "done" /\ call[t].c.returns \in {"Dict", "List"}
            /\ call[t].out.kind = "return") =>
                call[t].out.value.t # "bytes"

\* caller t's call is over and its exchange produced no response
TransportDone(t) ==
    call[t].pc = "done" /\ call[t].reply.net \in {"refused", "dns", "timeout", "closed"}

\* the exceptions of the standard library for an exchange without a response
TransportClasses == {"URLError", "TimeoutError", "RemoteDisconnected"}

\* C11: when the exchange produces no response (connection refused, DNS
\* failure, timeout, connection closed), the executor call fails with a
\* transport exception that is neither BlogError nor a subclass of it, and
\* every wrapper but is_healthy hands that same failure to its caller.
C11_TransportFailureOutsideTaxonomy ==
    \A t \in Threads :
        TransportDone(t) =>
            /\ call[t].exec.kind = "raise"
            /\ call[t].exec.cls \in TransportClasses
            /\ IsInstance(call[t].exec.cls, "OSError")
            /\ ~IsInstance(call[t].exec.cls, "BlogError")
            /\ call[t].c.op # "is_healthy" => call[t].out = call[t].exec

\* create_blog timed out and the caller got TimeoutError
C11_Witness ==
    \E t \in Threads :
        /\ TransportDone(t)
        /\ call[t].c.op = "create_blog"
        /\ call[t].reply.net = "timeout"
        /\ call[t].out.kind = "raise"
        /\ call[t].out.cls = "TimeoutError"

\* C12: whenever the executor fails with a taxonomy error, every wrapper
\* other than is_healthy (feed_rss, export_html, llms_txt and skill_md
\* included) fails with that same error, of the same kind, status and
\* body, and returns no value.
C12_WrappersPropagateTaxonomyErrors ==
    \A t \in Threads :
        (call[t].pc = "done" /\ IsTaxonomy(call[t].exec) /\ call[t].c.op # "is_healthy") =>
            /\ call[t].out.kind = "raise"
            /\ call[t].out.cls = call[t].exec.cls
            /\ call[t].out.status_code = call[t].exec.status_code
            /\ call[t].out.body = call[t].exec.body
            /\ call[t].out.msg = call[t].exec.msg
            /\ call[t].out.value = None

\* feed_rss of a missing blog raised the NotFoundError of the executor
C12_Witness ==
    \E t \in Threads :
        /\ HttpDone(t)
        /\ call[t].c.op = "feed_rss"
        /\ call[t].reply.status = 404
        /\ call[t].reply.body = Dumps(Dict(<<KV(<<"error">>, Str(<<"bad slug">>))>>))
        /\ call[t].out.kind = "raise"
        /\ call[t].out.cls = "NotFoundError"
        /\ call[t].out.status_code = 404
        /\ call[t].out.body = Dict(<<KV(<<"error">>, Str(<<"bad slug">>))>>)

\* the reply is a success that carries a JSON object whose `status` is "ok"
HealthyReply(reply) ==
    /\ reply.net = "http"
    /\ reply.status \in SuccessStatuses
    /\ reply.ct \in JsonContentTypes
    /\ \E v \in JsonSamples :
          /\ reply.body = Dumps(v)
          /\ v.t = "dict"
          /\ DictHas(v, <<"status">>)
          /\ DictGet(v, <<"status">>, None) = Str(<<"ok">>)

\* C13: is_healthy never raises: it returns True exactly when the health
\* call succeeds with a JSON object whose `status` is "ok", and False for
\* every other outcome: a taxonomy error, a transport failure, a success
\* that is not such an object.
C13_IsHealthyNeverFails ==
    \A t \in Threads :
        (call[t].pc = "done" /\ call[t].c.op = "is_healthy") =>
            /\ call[t].out.kind = "return"
            /\ call[t].out.value = Bool(HealthyReply(call[t].reply))

\* is_healthy of a server that refuses the connection returned False
C13_Witness ==
    \E t \in Threads :
        /\ TransportDone(t)
        /\ call[t].c.op = "is_healthy"
        /\ call[t].reply.net = "refused"
        /\ call[t].exec.cls = "URLError"
        /\ call[t].out = Returned(Bool(FALSE))

\* is_healthy of a server that answers {"status": "ok"} returned True
C13_HealthyReached ==
    \E t \in Threads :
        /\ HttpDone(t)
        /\ call[t].c.op = "is_healthy"
        /\ call[t].out = Returned(Bool(TRUE))

\* toks with every "/" at its end removed
WithoutTrailingSlashes(toks) ==
    IF \A i \in 1..Len(toks) : toks[i] = "/" THEN <<>>
    ELSE SubSeq(toks, 1, CHOOSE n \in 1..Len(toks) :
                            /\ toks[n] # "/"
                            /\ \A i \in (n + 1)..Len(toks) : toks[i] = "/")

\* C14: the stored base URL never ends with "/" (Blog("http://h:1/") stores
\* "http://h:1"), and the URL of every request whose path begins with "/"
\* is the stored base URL immediately followed by the path, so exactly one
\* "/" separates the two.
C14_BaseUrlWithoutTrailingSlash ==
    client.made =>
        LET base == client.base_url.raw
        IN /\ base = <<>> \/ base[Len(base)] # "/"
           /\ ctor.base_url = Str(<<"http://h:1", "/">>) => client.base_url = Str(<<"http://h:1">>)
           /\ \A t \in Threads :
                 (Sent(t) /\ Head(call[t].c.args.path) = "/") =>
                     LET url == call[t].wire[1].url
                         path == call[t].c.args.path
                     IN /\ Len(url) >= Len(base) + Len(path)
                        /\ SubSeq(url, 1, Len(base) + Len(path)) = base \o path
                        /\ url[Len(base) + 1] = "/"
                        /\ base # <<>> => url[Len(base)] # "/"

\* a client built with two trailing slashes sent health to
\* http://h:1/api/v1/health
C14_Witness ==
    \E t \in Threads :
        /\ ctor.base_url = Str(<<"http://h:1", "/", "/">>)
        /\ client.base_url = Str(<<"http://h:1">>)
        /\ call[t].pc = "sent"
        /\ call[t].c = health
        /\ call[t].req.url = <<"http://h:1", "/", "api", "/", "v1", "/", "health">>

\* C15: the base URL of a new client is the constructor argument if one is
\* given, otherwise BLOG_URL if it is set, otherwise
\* "http://localhost:3004", in each case without its trailing slashes.  An
\* argument or a variable that is the empty string counts as not given.
C15_BaseUrlPrecedence ==
    client.made =>
        LET source == IF Present(ctor.base_url) THEN ctor.base_url
                      ELSE IF Present(env.BLOG_URL) THEN env.BLOG_URL
                      ELSE Str(<<"http://localhost:3004">>)
        IN client.base_url = Str(WithoutTrailingSlashes(source.raw))

\* with no argument the client took BLOG_URL, without its trailing slash
C15_Witness ==
    /\ client.made
    /\ ctor.base_url = None
    /\ env.BLOG_URL = Str(<<"http://env:2", "/">>)
    /\ client.base_url = Str(<<"http://env:2">>)

\* an argument was preferred to BLOG_URL, and the default was used
C15_OtherSourcesReached ==
    /\ client.made
    /\ \/ Present(ctor.base_url) /\ Present(env.BLOG_URL)
       \/ ~Present(ctor.base_url) /\ ~Present(env.BLOG_URL)
              /\ client.base_url = Str(<<"http://localhost:3004">>)

\* C16: no call, whether it succeeds or fails, changes the configuration
\* the client holds: base_url, manage_key and timeout are what the
\* constructor stored, after any sequence of calls; a per-call credential
\* does not replace the client's default for the calls that follow.
C16_ConfigurationUnchanged ==
    client.made =>
        /\ client = BlogInit(env, ctor.base_url, ctor.manage_key, ctor.timeout)
        /\ client.timeout = ctor.timeout
        /\ \A t \in Threads :
              (Sent(t) /\ ~Present(call[t].c.args.manage_key)) =>
                  LET default == IF Present(ctor.manage_key) THEN ctor.manage_key
                                 ELSE env.BLOG_KEY
                  IN Present(default) => AuthHeader(call[t].wire[1]) = Bearer(default)

\* after a call with a per-call credential returned, a call without one was
\* sent with the client's default
C16_Witness ==
    \E t \in Threads :
        /\ prev = Str(<<"callkey">>)
        /\ call[t].pc = "sent"
        /\ call[t].c.args.manage_key = None
        /\ client.manage_key = Str(<<"ctorkey">>)
        /\ AuthHeader(call[t].req) = Str(<<"Bearer ", "ctorkey">>)

\* C17: each call of the executor performs exactly one HTTP exchange and
\* then returns or fails: when the call is over, one request has been sent,
\* whatever the response was.
C17_ExactlyOneExchange ==
    \A t \in Threads :
        call[t].pc = "done" => Len(call[t].wire) = 1

\* the request a call running alone on the client of the constructor sends
AloneRequest(c) ==
    BuildRequest(BlogInit(env, ctor.base_url, ctor.manage_key, ctor.timeout), c.args)

\* the credentials of the calls of SpecConcurrent
OwnCredential(c) ==
    IF Present(c.args.manage_key) THEN c.args.manage_key ELSE client.manage_key

\* C18: when several calls run at once on one client, in any interleaving,
\* the URL, the headers, the body and the outcome of each call are those of
\* the call running alone; no call is sent with another call's per-call
\* credential.
C18_ConcurrentCallsIndependent ==
    \A t \in Threads :
        call[t].pc # "idle" =>
            /\ call[t].wire = <<AloneRequest(call[t].c)>>
            /\ call[t].req = AloneRequest(call[t].c)
            /\ IF Present(OwnCredential(call[t].c))
               THEN AuthHeader(call[t].req) = Bearer(OwnCredential(call[t].c))
               ELSE AuthHeader(call[t].req) = None
            /\ call[t].pc = "done" =>
                  /\ call[t].exec = Complete(call[t].c.args, call[t].reply)
                  /\ call[t].out = WrapperResult(call[t].c, call[t].exec)

\* one call is still under way with its per-call credential while a call of
\* the other caller, sent with another per-call credential, has failed with
\* AuthError
C18_Witness ==
    /\ call[1].pc = "sent"
    /\ call[2].pc = "done"
    /\ call[1].c.args.manage_key = Str(<<"callkey">>)
    /\ call[2].c.args.manage_key = Str(<<"otherkey">>)
    /\ AuthHeader(call[1].req) = Str(<<"Bearer ", "callkey">>)
    /\ AuthHeader(call[2].req) = Str(<<"Bearer ", "otherkey">>)
    /\ call[2].out.kind = "raise"
    /\ call[2].out.cls = "AuthError"

\* C19: when a body is given the request carries it serialized as JSON, with
\* the content type application/json unless the caller's header overrides
\* name a content type, whose value is then kept; when no body is given the
\* executor adds no content type and the request has no payload.
C19_ContentTypeOfBody ==
    \A t \in Threads :
        Sent(t) =>
            LET a == call[t].c.args
                sent == call[t].wire[1]
            IN IF a.json_body # None
               THEN /\ sent.data = Bytes(Dumps(a.json_body))
                    /\ DictGet(sent.headers, <<"Content-type">>, None) =
                          IF CallerGave(a.headers, <<"Content-type">>)
                          THEN CallerValue(a.headers, <<"Content-type">>)
                          ELSE Str(<<"application/json">>)
               ELSE /\ sent.data = None
                    /\ ~CallerGave(a.headers, <<"Content-type">>) =>
                          ~DictHas(sent.headers, <<"Content-type">>)

\* the wrappers that change the blog
MutatingOps ==
    {"create_blog", "create_post", "delete_post", "create_comment", "delete_comment",
     "pin_post", "unpin_post"}

\* C20: a call of a mutating wrapper that a server answers 401 or 403 fails
\* with AuthError, whether it was sent with no credential (none per call,
\* none in the client) or with a credential the server does not accept.
C20_MutatingCallsRaiseAuthError ==
    \A t \in Threads :
        (HttpDone(t) /\ call[t].c.op \in MutatingOps /\ call[t].reply.status \in {401, 403}) =>
            /\ call[t].out.kind = "raise"
            /\ call[t].out.cls = "AuthError"
            /\ call[t].out.status_code = call[t].reply.status
            /\ IF Present(call[t].c.args.manage_key) \/ Present(client.manage_key)
               THEN DictHas(call[t].wire[1].headers, <<"Authorization">>)
               ELSE ~DictHas(call[t].wire[1].headers, <<"Authorization">>)

\* delete_post sent without Authorization header and answered 403 raised
\* AuthError
C20_Witness ==
    \E t \in Threads :
        /\ HttpDone(t)
        /\ call[t].c.op = "delete_post"
        /\ call[t].req.method = "DELETE"
        /\ ~DictHas(call[t].req.headers, <<"Authorization">>)
        /\ call[t].reply.status = 403
        /\ call[t].out.cls = "AuthError"

\* pin_post sent with a credential the server rejects with 401 raised
\* AuthError
C20_WrongCredentialReached ==
    \E t \in Threads :
        /\ HttpDone(t)
        /\ call[t].c.op = "pin_post"
        /\ AuthHeader(call[t].req) = Str(<<"Bearer ", "callkey">>)
        /\ call[t].reply.status = 401
        /\ call[t].out.cls = "AuthError"

(***************************************************************************)
(* C21.  update_blog and update_post pass through the executor: a call of  *)
(* either sends a request and ends with the executor's outcome, a 404      *)
(* ending it with NotFoundError and a 401 or 403 with AuthError.           *)
(***************************************************************************)
UpdateOps == {"update_blog", "update_post"}

C21_UpdatesPassThroughExecutor ==
    \A t \in Solo :
        (call[t].pc = "done" /\ call[t].c.op \in UpdateOps) =>
            /\ Len(call[t].wire) >= 1
            /\ call[t].exec # NoOutcome
            /\ call[t].out = call[t].exec
            /\ (call[t].reply.status = 404 => call[t].out.cls = "NotFoundError")
            /\ (call[t].reply.status \in {401, 403} => call[t].out.cls = "AuthError")

(***************************************************************************)
(* C22.  Every error the executor raises for an HTTP response is a         *)
(* BlogError: a handler for BlogError catches it, and a handler for one    *)
(* of the five specific kinds catches it only if it is of that very kind   *)
(* (no error of another specific kind, no generic BlogError).              *)
(***************************************************************************)
\* `except k` catches the error of outcome o only if o is of class k itself
CaughtOnlyByOwnKind(o) ==
    \A k \in SpecificKinds : IsInstance(o.cls, k) => o.cls = k

C22_EveryHttpErrorIsBlogError ==
    \A t \in Solo :
        (HttpDone(t) /\ call[t].exec.kind = "raise") =>
            /\ IsInstance(call[t].exec.cls, "BlogError")
            /\ CaughtOnlyByOwnKind(call[t].exec)

\* the part of C22 about the errors of the taxonomy
C22_TaxonomyHierarchy ==
    /\ \A k \in SpecificKinds : IsInstance(k, "BlogError") /\ ~IsInstance("BlogError", k)
    /\ \A t \in Solo :
          (HttpDone(t) /\ call[t].reply.status >= 400) =>
              /\ IsInstance(call[t].exec.cls, "BlogError")
              /\ CaughtOnlyByOwnKind(call[t].exec)

(***************************************************************************)
(* C23.  The library keeps nothing between calls: of two callers of        *)
(* clients with equal configuration, each with its own sequence of         *)
(* earlier calls, the same call builds the same request, and with the      *)
(* same response it has the same outcome.                                  *)
(***************************************************************************)
C23_StatelessBetweenCalls ==
    \A t, u \in Threads :
        (call[t].pc # "idle" /\ call[u].pc # "idle" /\ call[t].c = call[u].c) =>
            /\ call[t].wire[1] = call[u].wire[1]
            /\ (call[t].pc = "done" /\ call[u].pc = "done"
                    /\ call[t].reply = call[u].reply) =>
                  /\ call[t].exec = call[u].exec
                  /\ call[t].out = call[u].out

\* after a call with a per-call credential has returned, both callers have
\* made the same call without one and the server has refused both
C23_Witness ==
    /\ prev = Str(<<"callkey">>)
    /\ \A t \in Threads :
          /\ call[t].pc = "done"
          /\ call[t].c = create_blog(Str(<<"My Blog">>), None, Bool(TRUE), None)
          /\ call[t].reply.status = 401
          /\ call[t].out.cls = "AuthError"
    /\ call[1].wire = call[2].wire

(***************************************************************************)
(* C24.  Only null query values are dropped: an entry whose value is 0,    *)
(* false or the empty string is sent, in its string form ("0", "False",    *)
(* ""), and an entry whose value is null is not sent.                      *)
(***************************************************************************)
FalsyValues == {PyInt(0), Bool(FALSE), Str(<<>>)}

\* str(v) of a falsy value
FalsyText(v) ==
    CASE v = PyInt(0) -> <<"0">>
      [] v = Bool(FALSE) -> <<"False">>
      [] OTHER -> <<>>

\* the entries a server reads from the query string of url
QueryEntries(url) ==
    IF CountToks(url, "?") = 0 THEN <<>>
    ELSE LET q == CHOOSE i \in 1..Len(url) :
                      url[i] = "?" /\ \A j \in 1..(i - 1) : url[j] # "?"
         IN ParseQs(SubSeq(url, q + 1, Len(url)))

C24_FalsyQueryValuesKept ==
    \A t \in Solo :
        (Sent(t) /\ call[t].c.args.query.t = "dict") =>
            LET given == call[t].c.args.query.kids
                sent == QueryEntries(call[t].wire[1].url)
            IN \A i \in 1..Len(given) :
                  /\ given[i].v \in FalsyValues =>
                        \E j \in 1..Len(sent) :
                            sent[j] = KV(given[i].k, Str(FalsyText(given[i].v)))
                  /\ given[i].v = None =>
                        \A j \in 1..Len(sent) : sent[j].k # given[i].k

\* search("", limit=0) was sent as ...search?q=&limit=0, without offset
C24_Witness ==
    \E t \in Solo :
        /\ call[t].pc = "sent"
        /\ call[t].c = search(Str(<<>>), PyInt(0), None)
        /\ call[t].wire[1].url =
              client.base_url.raw
                  \o <<"/", "api", "/", "v1", "/", "search", "?", "q", "=", "&", "limit", "=", "0">>

(***************************************************************************)
(* C25.  Every request an endpoint wrapper issues has method GET, POST or  *)
(* DELETE; none has PATCH or PUT.                                          *)
(***************************************************************************)
EndpointWrappers == BlogMethods \ {"_request", "_raise"}

C25_WrappersUseGetPostDelete ==
    \A t \in Solo :
        (Sent(t) /\ call[t].c.op \in EndpointWrappers) =>
            \A i \in 1..Len(call[t].wire) :
                /\ call[t].wire[i].method \in {"GET", "POST", "DELETE"}
                /\ call[t].wire[i].method \notin {"PATCH", "PUT"}

\* pin_post was sent as a POST, and the server answered it
C25_Witness ==
    \E t \in Solo :
        /\ call[t].pc = "done"
        /\ call[t].c.op = "pin_post"
        /\ Sent(t)
        /\ call[t].wire[1].method = "POST"
        /\ call[t].reply.status = 200

(***************************************************************************)
(* C26.  Every response with a success status makes the executor return a  *)
(* value, whatever its content type and body: no taxonomy error and no     *)
(* other failure.                                                          *)
(***************************************************************************)
C26_SuccessAlwaysReturns ==
    \A t \in Solo :
        (HttpDone(t) /\ call[t].reply.status \in SuccessStatuses) =>
            call[t].exec.kind = "return"

\* the part of C26 that holds: success responses whose body is not declared
\* as JSON, or is JSON
C26_SuccessWithParseableBodyReturns ==
    \A t \in Solo :
        (HttpDone(t) /\ call[t].reply.status \in SuccessStatuses
            /\ (HasJson(call[t].reply.ct) => Loads(call[t].reply.body).ok)) =>
            call[t].exec.kind = "return"

(***************************************************************************)
(* C27.  An empty-string credential counts as absent at every level: an    *)
(* empty per-call manage_key falls back to the client's default, an empty  *)
(* constructor manage_key falls back to BLOG_KEY, and no request carries   *)
(* `Authorization: Bearer ` with an empty token.                           *)
(***************************************************************************)
Empty == Str(<<>>)

\* the two fallbacks, and no Bearer header with an empty token
EmptyCredentialFallsBack(t) ==
    LET pk == call[t].c.args.manage_key
    IN /\ ctor.manage_key = Empty => client.manage_key = env.BLOG_KEY
       /\ (pk = Empty /\ Present(client.manage_key)) =>
              AuthHeader(call[t].wire[1]) = Bearer(client.manage_key)
       /\ AuthHeader(call[t].wire[1]) # Bearer(Empty)

\* the credential finally chosen is empty or absent
NoCredentialChosen(t) ==
    ~Present(call[t].c.args.manage_key) /\ ~Present(client.manage_key)

\* C27 as stated: with no credential chosen, no Authorization header is sent
C27_EmptyCredentialSendsNoHeader ==
    \A t \in Solo :
        Sent(t) =>
            /\ EmptyCredentialFallsBack(t)
            /\ NoCredentialChosen(t) =>
                  ~DictHas(call[t].wire[1].headers, <<"Authorization">>)

\* C27 as amended: with no credential chosen the executor adds no
\* Authorization header, and the request carries one only if the caller's
\* header overrides hold it
C27_EmptyCredentialAddsNoHeader ==
    \A t \in Solo :
        Sent(t) =>
            /\ EmptyCredentialFallsBack(t)
            /\ NoCredentialChosen(t) =>
                  IF CallerGave(call[t].c.args.headers, <<"Authorization">>)
                  THEN AuthHeader(call[t].wire[1])
                          = CallerValue(call[t].c.args.headers, <<"Authorization">>)
                  ELSE ~DictHas(call[t].wire[1].headers, <<"Authorization">>)

\* constructor, environment and call all gave the empty string, and
\* delete_post was sent without Authorization header
C27_Witness ==
    \E t \in Solo :
        /\ ctor.manage_key = Empty
        /\ env.BLOG_KEY = Empty
        /\ client.manage_key = Empty
        /\ call[t].pc = "sent"
        /\ call[t].c = delete_post(B1, P1, Empty)
        /\ ~DictHas(call[t].wire[1].headers, <<"Authorization">>)

\* an empty per-call key and an empty constructor key fell back to BLOG_KEY
C27_FallbackReached ==
    \E t \in Solo :
        /\ ctor.manage_key = Empty
        /\ env.BLOG_KEY = Str(<<"envkey">>)
        /\ call[t].pc = "sent"
        /\ call[t].c.args.manage_key = Empty
        /\ AuthHeader(call[t].wire[1]) = Str(<<"Bearer ", "envkey">>)

(***************************************************************************)
(* C28.  Every taxonomy error has a message that is not empty ("HTTP       *)
(* <status>" when the body is an object whose `error` and `message` are    *)
(* both missing or empty); a body that parses to a value that is no object *)
(* is kept as the error's body, with the message "HTTP <status>"; and the  *)
(* error's body is null exactly when the response body did not parse.      *)
(***************************************************************************)
\* the field is missing from the object, or empty
MissingOrEmpty(v, field) == ~Truthy(DictGet(v, field, Str(<<>>)))

\* the message and the body of the error, for a body that is the JSON text
\* of v
MessageAndKeptBody(t, v) ==
    /\ call[t].exec.body = v
    /\ (v.t = "dict" /\ MissingOrEmpty(v, <<"error">>) /\ MissingOrEmpty(v, <<"message">>)) =>
          call[t].exec.msg = HttpStatusText(call[t].reply.status)
    /\ v.t # "dict" => call[t].exec.msg = HttpStatusText(call[t].reply.status)

\* C28 as stated: the body is null exactly when the response body failed to
\* parse as JSON
C28_BodyNullIffUnparseable ==
    \A t \in Solo :
        (HttpDone(t) /\ IsTaxonomy(call[t].exec)) =>
            /\ Truthy(call[t].exec.msg)
            /\ \A v \in JsonSamples :
                  call[t].reply.body = Dumps(v) => MessageAndKeptBody(t, v)
            /\ call[t].exec.body = None <=> call[t].reply.body \in UnparseableBodies

\* C28 as amended: the body is null exactly when the response body failed
\* to parse as JSON or is the JSON value null
C28_BodyNullIffUnparseableOrNull ==
    \A t \in Solo :
        (HttpDone(t) /\ IsTaxonomy(call[t].exec)) =>
            /\ Truthy(call[t].exec.msg)
            /\ \A v \in JsonSamples :
                  call[t].reply.body = Dumps(v) => MessageAndKeptBody(t, v)
            /\ call[t].exec.body = None <=>
                  (call[t].reply.body \in UnparseableBodies
                      \/ call[t].reply.body = Dumps(None))

\* a 404 whose body is a JSON array gave a NotFoundError that holds the
\* array and has the message "HTTP 404"
C28_Witness ==
    \E t \in Solo :
        /\ HttpDone(t)
        /\ call[t].reply.status = 404
        /\ call[t].reply.body = Dumps(List(<<Dict(<<KV(<<"id">>, Str(<<"b1">>))>>), PyInt(0)>>))
        /\ call[t].exec.cls = "NotFoundError"
        /\ call[t].exec.body = List(<<Dict(<<KV(<<"id">>, Str(<<"b1">>))>>), PyInt(0)>>)
        /\ call[t].exec.msg = Str(<<"HTTP ", "404">>)

\* a 500 whose body is the JSON text null gave a ServerError with body None
C28_NullBodyReached ==
    \E t \in Solo :
        /\ HttpDone(t)
        /\ call[t].reply.status = 500
        /\ call[t].reply.body = <<"null">>
        /\ call[t].exec.cls = "ServerError"
        /\ call[t].exec.body = None

(***************************************************************************)
(* C29.  For every successful response, whatever its content type,         *)
(* feed_rss and export_html return a bytes value and llms_txt and skill_md *)
(* return a text string, also when the executor hands them a parsed JSON   *)
(* value instead of raw bytes.                                             *)
(***************************************************************************)
BytesWrappers == {"feed_rss", "export_html"}
TextWrappers == {"llms_txt", "skill_md"}

C29_BytesAndTextWrappers ==
    \A t \in Solo :
        (HttpDone(t) /\ call[t].reply.status \in SuccessStatuses) =>
            /\ call[t].c.op \in BytesWrappers =>
                  call[t].out.kind = "return" /\ call[t].out.value.t = "bytes"
            /\ call[t].c.op \in TextWrappers =>
                  call[t].out.kind = "return" /\ call[t].out.value.t = "str"

\* the part of C29 that holds: the text wrappers whenever the executor
\* returns, the bytes wrappers whenever it returns bytes or a string
C29_WhereTheExecutorReturnsBytesOrText ==
    \A t \in Solo :
        (HttpDone(t) /\ call[t].exec.kind = "return") =>
            /\ (call[t].c.op \in BytesWrappers /\ call[t].exec.value.t \in {"bytes", "str"}) =>
                  call[t].out.kind = "return" /\ call[t].out.value.t = "bytes"
            /\ call[t].c.op \in TextWrappers =>
                  call[t].out.kind = "return" /\ call[t].out.value.t = "str"

\* feed_rss, answered 200 with a JSON object, raised AttributeError
C29_ObjectReached ==
    \E t \in Solo :
        /\ HttpDone(t)
        /\ call[t].c = feed_rss(B1)
        /\ call[t].reply = HttpReply(200, <<"application", "/", "json">>,
                                      Dumps(Dict(<<KV(<<"status">>, Str(<<"ok">>))>>)))
        /\ call[t].exec = Returned(Dict(<<KV(<<"status">>, Str(<<"ok">>))>>))
        /\ call[t].out = StdError("AttributeError")

(***************************************************************************)
(* C30.  The credential is sent only in the Authorization header: for      *)
(* every endpoint wrapper, neither the per-call manage_key nor the         *)
(* client's default manage_key appears in the URL or in the request body.  *)
(***************************************************************************)
\* the text toks holds the credential k
Holds(toks, k) == \E i \in 1..Len(toks) : \E j \in 1..Len(k.raw) : toks[i] = k.raw[j]

\* the credentials a call can draw on
CredentialsOf(t) ==
    {k \in {call[t].c.args.manage_key, client.manage_key} : Present(k)}

C30_CredentialOnlyInAuthorization ==
    \A t \in Solo :
        (Sent(t) /\ call[t].c.op \in EndpointWrappers) =>
            \A i \in 1..Len(call[t].wire) : \A k \in CredentialsOf(t) :
                LET r == call[t].wire[i]
                IN /\ ~Holds(r.url, k)
                   /\ r.data.t # "none" => ~Holds(r.data.raw, k)
                   /\ \A h \in 1..Len(r.headers.kids) :
                         r.headers.kids[h].k # <<"Authorization">> =>
                             ~Holds(r.headers.kids[h].v.raw, k)

\* create_blog with a per-call credential, on a client that holds another:
\* the credential went into the Authorization header, and the URL and the
\* body are those of the call without credential
C30_Witness ==
    \E t \in Solo :
        /\ call[t].pc = "sent"
        /\ call[t].c = create_blog(Str(<<"My Blog">>), None, Bool(TRUE), Str(<<"callkey">>))
        /\ client.manage_key = Str(<<"ctorkey">>)
        /\ AuthHeader(call[t].wire[1]) = Str(<<"Bearer ", "callkey">>)
        /\ call[t].wire[1].url = client.base_url.raw \o <<"/", "api", "/", "v1", "/", "blogs">>
        /\ call[t].wire[1].data =
              Bytes(Dumps(Dict(<<KV(<<"name">>, Str(<<"My Blog">>)),
                                 KV(<<"is_public">>, Bool(TRUE))>>)))

====
